---- MODULE Spec2Model ----
(***************************************************************************)
(* Model of the image-acquisition pipeline of the site generator:          *)
(*   src/ai_image_generator.py  (AIImageGenerator)                         *)
(*   src/gpt_site_generator.py  (get_smart_fallback_image,                 *)
(*                               EnhancedGPTSiteGenerator                  *)
(*                               ._fallback_categorization)                *)
(*   src/ai_enhanced_site_generator.py  (AIEnhancedSiteGenerator           *)
(*                               .categorize_product, the metadata of      *)
(*                               generate_site_with_ai_images)             *)
(* Python strings are TLA+ strings; "in", lower() and the f-strings are    *)
(* computed character by character with Len, SubSeq and \o.                *)
(***************************************************************************)
EXTENDS Integers, Sequences, FiniteSets, TLC

(***************************************************************************)
(* State                                                                   *)
(***************************************************************************)
VARIABLES
    \* --- one AIImageGenerator instance and its generation run ---
    product_name,       \* argument of generate_for_website
    api_preference,     \* argument: "dalle", "stability", "huggingface", "auto"
    openai_api_key,     \* TRUE iff self.openai_api_key is non-empty
    stability_api_key,  \* TRUE iff self.stability_api_key is non-empty
    huggingface_token,  \* TRUE iff self.huggingface_token is non-empty
    pc,                 \* position in generate_for_website / generate_product_images
    category,           \* local of generate_product_images
    cfg,                \* index into image_configs (outer loop)
    i,                  \* inner loop variable
    prompt,             \* local: prompt of the current image
    image_url,          \* local: result of generate_with_openai_dalle
    image_path,         \* local: locator of the current image or None
    hf_status,          \* response.status_code inside generate_with_huggingface
    hf_log,             \* requests generate_with_huggingface made for this image
    now,                \* int(time.time()), seconds since the run started
    attempt,            \* step -> how it ended for the current image
    generated_images,   \* the dict built by generate_product_images
    web_result,         \* return value of generate_for_website
    raised,             \* TRUE iff an exception left generate_for_website
    invoked,            \* adapter -> invocations for the current image
    requests,           \* adapter -> network requests for the current image
    faults,             \* failed responses the environment has produced
    request_raised,     \* step -> its request raised, for the current image
    genuine_success,    \* TRUE iff a provider call of the run has succeeded
    \* --- direct calls of the pure functions ---
    hashOf,             \* hash() of this process: prompt -> integer
    fb_seen,            \* prompt -> URLs get_smart_fallback_image returned
    cat_call,           \* last call of each categorizer
    p_name, p_type, p_theme,   \* fixed arguments of the generate_prompt calls
    provider_outcome,   \* latest provider outcome seen by the caller
    last,               \* run -> its last generate_prompt call
    \* --- history of the run and the site generator around it ---
    acquired,           \* the acquisitions completed so far, in order
    hf_result,          \* how generate_with_huggingface ended for this image
    use_ai_images,      \* argument of generate_site_with_ai_images
    site,               \* what generate_site_with_ai_images has produced
    \* --- gpt_site_generator: generate_product_image and its callers ---
    environ,            \* os.environ: the value of OPENAI_API_KEY, "" if unset
    api_key,            \* self.api_key of the EnhancedGPTSiteGenerator, if any
    openai_module,      \* TRUE iff "import openai" succeeds in this process
    gpt_calls,          \* the calls of generate_product_image so far
    clean_call,         \* a direct call of clean_dalle_prompt
    \* --- two generation runs writing to the same output directory ---
    clock,              \* int(time.time()) of the machine
    w_product,          \* run -> its product_name
    w_pos,              \* run -> acquisitions it has completed
    w_ready,            \* run -> the clock second its time.sleep(1) ends
    written,            \* run -> the paths it has written
    \* --- huggingface_fixed: one HuggingFaceImageGenerator and one call ---
    hfg_token,          \* TRUE iff self.token is non-empty
    hfg_model,          \* argument model of generate_image
    hfg_pc,             \* position in generate_image
    hfg_log,            \* the requests and the file write of the call
    hfg_files,          \* the image files the call has written
    hfg_ret,            \* return value of generate_image, None while running
    hfg_raised,         \* TRUE iff an exception left generate_image
    hfg_now             \* int(time.time()) as generate_image sees it

runVars == << product_name, api_preference, openai_api_key, stability_api_key,
              huggingface_token, pc, category, cfg, i, prompt, image_url,
              image_path, hf_status, hf_log, now, attempt, generated_images,
              web_result, raised, invoked, requests, faults,
              request_raised, genuine_success >>

fnVars == << hashOf, fb_seen, cat_call, p_name, p_type, p_theme,
             provider_outcome, last >>

siteVars == << use_ai_images, site >>

gptVars == << environ, api_key, openai_module, gpt_calls >>

wrVars == << clock, w_product, w_pos, w_ready, written >>

hfgVars == << hfg_token, hfg_model, hfg_pc, hfg_log, hfg_files, hfg_ret,
              hfg_raised, hfg_now >>

moreVars == << gptVars, clean_call, wrVars, hfgVars >>

otherVars == << siteVars, moreVars >>

extVars == << acquired, hf_result, otherVars >>

vars == << runVars, fnVars, extVars >>

None == "None"

(***************************************************************************)
(* String primitives                                                       *)
(***************************************************************************)
UpperAlpha == "ABCDEFGHIJKLMNOPQRSTUVWXYZ"
LowerAlpha == "abcdefghijklmnopqrstuvwxyz"

\* str.lower() on one character
LowerChar(c) ==
    IF \E k \in 1..26 : SubSeq(UpperAlpha, k, k) = c
    THEN LET k == CHOOSE j \in 1..26 : SubSeq(UpperAlpha, j, j) = c
         IN  SubSeq(LowerAlpha, k, k)
    ELSE c

\* str.lower(): every character mapped in place (split in halves to keep
\* the recursion shallow; t is the value of s, computed once)
RECURSIVE Lower(_)
Lower(s) ==
    CHOOSE r \in
        { IF Len(t) = 0 THEN t
          ELSE IF Len(t) = 1 THEN LowerChar(t)
          ELSE LET h == Len(t) \div 2
               IN  Lower(SubSeq(t, 1, h)) \o Lower(SubSeq(t, h + 1, Len(t)))
          : t \in {s} } : TRUE

\* str.replace(old, new) for a one-character old
RECURSIVE ReplaceChar(_, _, _)
ReplaceChar(s, old, new) ==
    CHOOSE r \in
        { IF Len(t) = 0 THEN t
          ELSE IF Len(t) = 1 THEN (IF t = old THEN new ELSE t)
          ELSE LET h == Len(t) \div 2
               IN  ReplaceChar(SubSeq(t, 1, h), old, new)
                     \o ReplaceChar(SubSeq(t, h + 1, Len(t)), old, new)
          : t \in {s} } : TRUE

\* str.find(old) + 1: the position of the leftmost occurrence, 0 if none
\* (P is the set of the positions of the occurrences, computed once)
Find(s, old) ==
    CHOOSE r \in
        { IF P = {} THEN 0 ELSE CHOOSE p \in P : \A q \in P : p <= q
          : P \in { { p \in 1..(Len(t) - Len(old) + 1) :
                        SubSeq(t, p, p + Len(old) - 1) = old }
                    : t \in {s} } } : TRUE

\* str.replace(old, new): leftmost non-overlapping occurrences, old non-empty
\* (one step of the recursion per occurrence; tp is the pair of the value
\* of s and the position of the first occurrence in it)
RECURSIVE Replace(_, _, _)
Replace(s, old, new) ==
    CHOOSE r \in
        { IF tp[2] = 0 THEN tp[1]
          ELSE SubSeq(tp[1], 1, tp[2] - 1) \o new
                 \o Replace(SubSeq(tp[1], tp[2] + Len(old), Len(tp[1])),
                            old, new)
          : tp \in { << t, Find(t, old) >> : t \in {s} } } : TRUE

Whitespace == {" ", "\t", "\n", "\r"}

\* str.strip(): leading and trailing whitespace removed
Strip(s) ==
    LET K == { k \in 1..Len(s) : SubSeq(s, k, k) \notin Whitespace }
    IN  IF K = {} THEN ""
        ELSE SubSeq(s, CHOOSE a \in K : \A k \in K : a <= k,
                       CHOOSE b \in K : \A k \in K : b >= k)

\* os.path.join(a, b) on POSIX for a non-empty a without trailing slash
path_join(a, b) ==
    IF Len(b) > 0 /\ SubSeq(b, 1, 1) = "/" THEN b ELSE a \o "/" \o b

\* Python "k in s" for strings: k occurs in s as a contiguous substring
\* (t is the value of s, computed once)
Contains(s, k) ==
    \E t \in {s} :
        \E p \in 1..(Len(t) - Len(k) + 1) : SubSeq(t, p, p + Len(k) - 1) = k

\* any(word in s for word in words), words a sequence of strings
AnyIn(words, s) ==
    \E t \in {s} : \E n \in 1..Len(words) : Contains(t, words[n])

(***************************************************************************)
(* AIImageGenerator.categorize_product                                     *)
(***************************************************************************)
tech_keywords ==
    << "smart", "ai", "tech", "app", "software", "digital", "robot", "drone",
       "gadget", "device", "electronic", "computer", "mobile", "laptop",
       "camera", "headphone", "speaker", "watch" >>

food_keywords ==
    << "food", "drink", "coffee", "tea", "restaurant", "cafe", "kitchen",
       "recipe", "meal", "pizza", "burger", "cake", "wine", "beer", "juice",
       "bakery" >>

fashion_keywords ==
    << "fashion", "clothing", "style", "dress", "shirt", "pants", "shoes",
       "bag", "accessory", "jewelry", "boutique", "designer", "apparel" >>

health_keywords ==
    << "health", "wellness", "fitness", "yoga", "gym", "medical", "therapy",
       "nutrition", "vitamin", "supplement", "exercise", "workout", "spa" >>

business_keywords ==
    << "business", "corporate", "company", "service", "consulting",
       "professional", "office", "team", "solution", "agency", "marketing" >>

\* categorize_product with the food loop ahead of the technology loop
categorize_product_food_first(name) ==
    LET product_lower == Lower(name)
    IN  IF AnyIn(food_keywords, product_lower) THEN "food_beverage"
        ELSE IF AnyIn(tech_keywords, product_lower) THEN "technology"
        ELSE IF AnyIn(fashion_keywords, product_lower) THEN "fashion"
        ELSE IF AnyIn(health_keywords, product_lower) THEN "health_wellness"
        ELSE IF AnyIn(business_keywords, product_lower) THEN "business"
        ELSE "technology"

\* the five keyword loops, in the order of the source, then the default
categorize_product(name) ==
    LET product_lower == Lower(name)
    IN  IF AnyIn(tech_keywords, product_lower) THEN "technology"
        ELSE IF AnyIn(food_keywords, product_lower) THEN "food_beverage"
        ELSE IF AnyIn(fashion_keywords, product_lower) THEN "fashion"
        ELSE IF AnyIn(health_keywords, product_lower) THEN "health_wellness"
        ELSE IF AnyIn(business_keywords, product_lower) THEN "business"
        ELSE "technology"

(***************************************************************************)
(* EnhancedGPTSiteGenerator._fallback_categorization                       *)
(***************************************************************************)
gpt_food_words ==
    << "food", "coffee", "restaurant", "bakery", "pizza", "organic",
       "drink", "beverage", "recipe", "meal", "gourmet", "artisan",
       "apple", "fruit", "vegetable", "fresh", "farm", "beans", "roast",
       "brew", "tea", "wine", "beer", "dairy", "meat", "seafood", "spice",
       "sauce", "soup", "bread", "dessert", "cake", "cookie", "chocolate" >>

gpt_tech_words ==
    << "smart", "ai", "tech", "digital", "app", "software", "device",
       "phone", "laptop", "computer", "drone", "robot", "electronic",
       "gadget", "virtual", "augmented", "machine", "algorithm", "data" >>

gpt_fashion_words ==
    << "fashion", "clothing", "dress", "shirt", "shoes", "bag", "handbag",
       "jewelry", "watch", "style", "designer", "luxury", "saree",
       "pants", "jacket", "coat", "suit", "tie", "belt", "hat", "scarf" >>

gpt_health_words ==
    << "health", "fitness", "wellness", "yoga", "gym", "medical",
       "beauty", "cosmetic", "care", "supplement", "vitamin", "protein",
       "therapy", "treatment", "skincare", "massage", "meditation" >>

gpt_automotive_words ==
    << "car", "vehicle", "automotive", "bike", "motorcycle", "truck",
       "engine", "wheel", "tire", "brake", "motor", "racing" >>

gpt_sports_words ==
    << "sport", "game", "tennis", "football", "outdoor", "recreation",
       "equipment", "gear", "basketball", "soccer", "golf", "swimming" >>

gpt_home_words ==
    << "home", "furniture", "decor", "appliance", "tool", "garden",
       "bedroom", "living", "chair", "table", "lamp", "cleaning" >>

gpt_business_words ==
    << "business", "professional", "office", "consulting", "service",
       "marketing", "finance", "legal", "enterprise", "corporate" >>

\* _fallback_categorization with the technology test ahead of the food test
_fallback_categorization_tech_first(name) ==
    LET product_lower == Lower(name)
    IN  IF AnyIn(gpt_tech_words, product_lower) THEN "technology"
        ELSE IF AnyIn(gpt_food_words, product_lower) THEN "food_beverage"
        ELSE IF AnyIn(gpt_fashion_words, product_lower) THEN "fashion"
        ELSE IF AnyIn(gpt_health_words, product_lower) THEN "health_wellness"
        ELSE IF AnyIn(gpt_automotive_words, product_lower) THEN "automotive"
        ELSE IF AnyIn(gpt_sports_words, product_lower) THEN "sports_recreation"
        ELSE IF AnyIn(gpt_home_words, product_lower) THEN "home_lifestyle"
        ELSE IF AnyIn(gpt_business_words, product_lower)
             THEN "business_professional"
        ELSE "food_beverage"

_fallback_categorization(name) ==
    LET product_lower == Lower(name)
    IN  IF AnyIn(gpt_food_words, product_lower) THEN "food_beverage"
        ELSE IF AnyIn(gpt_tech_words, product_lower) THEN "technology"
        ELSE IF AnyIn(gpt_fashion_words, product_lower) THEN "fashion"
        ELSE IF AnyIn(gpt_health_words, product_lower) THEN "health_wellness"
        ELSE IF AnyIn(gpt_automotive_words, product_lower) THEN "automotive"
        ELSE IF AnyIn(gpt_sports_words, product_lower) THEN "sports_recreation"
        ELSE IF AnyIn(gpt_home_words, product_lower) THEN "home_lifestyle"
        ELSE IF AnyIn(gpt_business_words, product_lower)
             THEN "business_professional"
        ELSE "food_beverage"

(***************************************************************************)
(* AIEnhancedSiteGenerator.categorize_product                              *)
(***************************************************************************)
\* self.categories: the keywords of each category
categories ==
    [ technology |->
        << "smart", "ai", "tech", "app", "software", "digital", "cyber",
           "robot", "drone", "gadget", "device", "electronic", "computer",
           "mobile", "tablet", "laptop", "camera", "headphone", "speaker" >>,
      food_beverage |->
        << "food", "drink", "coffee", "tea", "restaurant", "cafe",
           "kitchen", "recipe", "meal", "pizza", "burger", "cake", "wine",
           "beer", "juice", "bakery", "chef", "dining" >>,
      fashion |->
        << "fashion", "clothing", "style", "dress", "shirt", "pants",
           "shoes", "bag", "accessory", "jewelry", "watch", "boutique",
           "designer", "trend", "outfit", "apparel" >>,
      health_wellness |->
        << "health", "wellness", "fitness", "yoga", "gym", "medical",
           "therapy", "nutrition", "vitamin", "supplement", "exercise",
           "workout", "spa", "massage" >>,
      business |->
        << "business", "corporate", "company", "service", "consulting",
           "professional", "office", "team", "solution", "agency",
           "marketing", "finance" >>,
      general |-> << >> ]

\* the order in which self.categories.items() yields the categories
categories_items ==
    << "technology", "food_beverage", "fashion", "health_wellness",
       "business", "general" >>

\* the same loop returning technology when no keyword matches
AIEnhancedSiteGenerator_categorize_product_tech_default(name) ==
    LET product_lower == Lower(name)
        hits == {n \in 1..Len(categories_items) :
                   /\ categories_items[n] # "general"
                   /\ AnyIn(categories[categories_items[n]], product_lower)}
    IN  IF hits = {} THEN "technology"
        ELSE categories_items[CHOOSE n \in hits : \A m \in hits : n <= m]

\* for category, data in self.categories.items(): skip general, return the
\* first category with a keyword in product_lower; else general
AIEnhancedSiteGenerator_categorize_product(name) ==
    LET product_lower == Lower(name)
        hits == {n \in 1..Len(categories_items) :
                   /\ categories_items[n] # "general"
                   /\ AnyIn(categories[categories_items[n]], product_lower)}
    IN  IF hits = {} THEN "general"
        ELSE categories_items[CHOOSE n \in hits : \A m \in hits : n <= m]

(***************************************************************************)
(* AIImageGenerator.themes, AIImageGenerator.image_types                   *)
(***************************************************************************)
themes ==
    [ technology |->
        [ styles |-> << "futuristic", "sleek modern", "minimalist tech",
                        "cyberpunk", "professional studio" >>,
          environments |-> << "clean white background",
                              "modern office setting", "futuristic lab",
                              "tech workspace", "gradient backdrop" >>,
          lighting |-> << "studio lighting", "LED accent lighting",
                          "soft ambient glow", "dramatic tech lighting",
                          "natural daylight" >> ],
      food_beverage |->
        [ styles |-> << "appetizing commercial", "rustic artisan",
                        "modern culinary", "cozy restaurant",
                        "gourmet presentation" >>,
          environments |-> << "marble countertop", "wooden table setting",
                              "restaurant kitchen", "cafe atmosphere",
                              "outdoor dining" >>,
          lighting |-> << "warm golden lighting", "soft natural light",
                          "dramatic food photography",
                          "cozy ambient lighting", "bright daylight" >> ],
      fashion |->
        [ styles |-> << "high fashion editorial", "street style casual",
                        "luxury boutique", "trendy modern",
                        "classic elegant" >>,
          environments |-> << "fashion studio backdrop",
                              "urban street scene", "luxury boutique",
                              "minimalist setting", "artistic backdrop" >>,
          lighting |-> << "professional fashion lighting",
                          "natural portrait lighting",
                          "dramatic fashion photography",
                          "soft beauty lighting", "editorial lighting" >> ],
      health_wellness |->
        [ styles |-> << "clean wellness aesthetic", "natural organic",
                        "medical professional", "fitness focused",
                        "spa luxury" >>,
          environments |-> << "clean medical setting",
                              "natural outdoor environment", "modern gym",
                              "spa atmosphere", "wellness center" >>,
          lighting |-> << "clean bright lighting", "soft natural lighting",
                          "professional medical lighting",
                          "warm wellness lighting",
                          "energizing daylight" >> ],
      business |->
        [ styles |-> << "corporate professional", "modern business",
                        "executive luxury", "startup innovative",
                        "consulting expert" >>,
          environments |-> << "modern office", "conference room",
                              "executive suite", "business center",
                              "corporate lobby" >>,
          lighting |-> << "professional office lighting",
                          "executive lighting", "modern business lighting",
                          "confident lighting", "corporate ambiance" >> ] ]

image_types ==
    [ hero_background |->
        [ size |-> "1920x1080",
          description |-> "wide panoramic background image",
          style_modifier |-> "cinematic wide shot" ],
      product_showcase |->
        [ size |-> "800x600",
          description |-> "product focused image",
          style_modifier |-> "product photography" ],
      feature_icon |->
        [ size |-> "400x400",
          description |-> "feature illustration",
          style_modifier |-> "icon style graphic" ],
      gallery_item |->
        [ size |-> "600x400",
          description |-> "lifestyle image",
          style_modifier |-> "lifestyle photography" ] ]

\* self.themes.get(theme, self.themes['technology'])
theme_data_of(theme) ==
    IF theme \in DOMAIN themes THEN themes[theme] ELSE themes["technology"]

\* self.image_types.get(image_type, self.image_types['product_showcase'])
image_config_of(image_type) ==
    IF image_type \in DOMAIN image_types THEN image_types[image_type]
    ELSE image_types["product_showcase"]

\* indexing that stops at the last entry instead of wrapping around
select_clamped(list, variation) ==
    list[(IF variation < Len(list) THEN variation ELSE Len(list) - 1) + 1]

\* list[variation % len(list)]; Python lists are 0-based, sequences 1-based
select_variant(list, variation) == list[(variation % Len(list)) + 1]

\* the (style, environment, lighting) triple of generate_prompt
prompt_triple(theme, variation) ==
    LET theme_data == theme_data_of(theme)
    IN  [ style       |-> select_variant(theme_data.styles, variation),
          environment |-> select_variant(theme_data.environments, variation),
          lighting    |-> select_variant(theme_data.lighting, variation) ]

quality_suffix ==
    ", 8K resolution, professional photography, commercial quality, detailed, vibrant colors"

\* generate_prompt reading the latest provider outcome besides its arguments
generate_prompt_drifting(name, image_type, theme, variation) ==
    LET image_config == image_config_of(image_type)
        t     == prompt_triple(theme,
                   IF provider_outcome = "failure" THEN variation + 1
                   ELSE variation)
        style == t.style
        environment == t.environment
        lighting == t.lighting
        text ==
          IF image_type = "hero_background" THEN
            "Professional " \o style \o " " \o image_config.description
              \o " featuring " \o name \o ", " \o environment
              \o ", " \o lighting \o ", " \o image_config.style_modifier
              \o ", high quality, detailed, commercial photography"
          ELSE IF image_type = "product_showcase" THEN
            style \o " " \o image_config.style_modifier \o " of "
              \o name \o ", " \o environment \o ", " \o lighting
              \o ", professional commercial quality, detailed, sharp focus"
          ELSE IF image_type = "feature_icon" THEN
            "Modern " \o image_config.style_modifier \o " representing "
              \o name \o " features, " \o style
              \o " design, clean, professional, " \o lighting
          ELSE
            style \o " " \o image_config.style_modifier \o " showing "
              \o name \o " in use, " \o environment \o ", "
              \o lighting \o ", realistic, high quality"
    IN  text \o quality_suffix

\* AIImageGenerator.generate_prompt
generate_prompt(name, image_type, theme, variation) ==
    LET image_config == image_config_of(image_type)
        t     == prompt_triple(theme, variation)
        style == t.style
        environment == t.environment
        lighting == t.lighting
        text ==
          IF image_type = "hero_background" THEN
            "Professional " \o style \o " " \o image_config.description
              \o " featuring " \o name \o ", " \o environment
              \o ", " \o lighting \o ", " \o image_config.style_modifier
              \o ", high quality, detailed, commercial photography"
          ELSE IF image_type = "product_showcase" THEN
            style \o " " \o image_config.style_modifier \o " of "
              \o name \o ", " \o environment \o ", " \o lighting
              \o ", professional commercial quality, detailed, sharp focus"
          ELSE IF image_type = "feature_icon" THEN
            "Modern " \o image_config.style_modifier \o " representing "
              \o name \o " features, " \o style
              \o " design, clean, professional, " \o lighting
          ELSE
            style \o " " \o image_config.style_modifier \o " showing "
              \o name \o " in use, " \o environment \o ", "
              \o lighting \o ", realistic, high quality"
    IN  text \o quality_suffix

(***************************************************************************)
(* get_smart_fallback_image (src/gpt_site_generator.py)                    *)
(***************************************************************************)
fb_tech_words ==
    << "laptop", "computer", "gaming", "mouse", "keyboard", "phone",
       "smartphone", "tablet", "headphones", "tech", "electronic", "device",
       "gadget" >>

fb_fashion_words ==
    << "fashion", "clothing", "accessory", "bag", "handbag", "watch",
       "jewelry", "shoes", "apparel" >>

fb_food_words ==
    << "coffee", "food", "beverage", "drink", "kitchen", "cooking",
       "restaurant", "culinary" >>

fb_health_words ==
    << "health", "fitness", "wellness", "medical", "yoga", "exercise",
       "supplement", "beauty" >>

tech_images ==
    << "https://images.unsplash.com/photo-1593642632823-8f785ba67e45?w=800&h=600&fit=crop&q=80",
       "https://images.unsplash.com/photo-1542751371-adc38448a05e?w=800&h=600&fit=crop&q=80",
       "https://images.unsplash.com/photo-1583394838336-acd977736f90?w=800&h=600&fit=crop&q=80",
       "https://images.unsplash.com/photo-1511707171634-5f897ff02aa9?w=800&h=600&fit=crop&q=80" >>

fashion_images ==
    << "https://images.unsplash.com/photo-1553062407-98eeb64c6a62?w=800&h=600&fit=crop&q=80",
       "https://images.unsplash.com/photo-1594223274512-ad4803739b7c?w=800&h=600&fit=crop&q=80",
       "https://images.unsplash.com/photo-1549298916-b41d501d3772?w=800&h=600&fit=crop&q=80",
       "https://images.unsplash.com/photo-1492707892479-7bc8d5a4ee93?w=800&h=600&fit=crop&q=80" >>

food_images ==
    << "https://images.unsplash.com/photo-1447933601403-0c6688de566e?w=800&h=600&fit=crop&q=80",
       "https://images.unsplash.com/photo-1556909114-f6e7ad7d3136?w=800&h=600&fit=crop&q=80",
       "https://images.unsplash.com/photo-1498837167922-ddd27525d352?w=800&h=600&fit=crop&q=80",
       "https://images.unsplash.com/photo-1555126634-323283e090fa?w=800&h=600&fit=crop&q=80" >>

health_images ==
    << "https://images.unsplash.com/photo-1571019613454-1cb2f99b2d8b?w=800&h=600&fit=crop&q=80",
       "https://images.unsplash.com/photo-1544367567-0f2fcb009e0b?w=800&h=600&fit=crop&q=80",
       "https://images.unsplash.com/photo-1505751172876-fa1923c5c528?w=800&h=600&fit=crop&q=80",
       "https://images.unsplash.com/photo-1559056199-641a0ac8b55e?w=800&h=600&fit=crop&q=80" >>

default_image ==
    "https://images.unsplash.com/photo-1560472354-b33ff0c44a43?w=800&h=600&fit=crop&q=80"

\* the same chain with the food test moved to the front
fallback_list_food_first(prompt_) ==
    LET prompt_lower == Lower(prompt_)
    IN  IF AnyIn(fb_food_words, prompt_lower) THEN food_images
        ELSE IF AnyIn(fb_tech_words, prompt_lower) THEN tech_images
        ELSE IF AnyIn(fb_fashion_words, prompt_lower) THEN fashion_images
        ELSE IF AnyIn(fb_health_words, prompt_lower) THEN health_images
        ELSE << >>

\* The domain list a prompt selects, <<>> when no domain keyword matches.
fallback_list(prompt_) ==
    LET prompt_lower == Lower(prompt_)
    IN  IF AnyIn(fb_tech_words, prompt_lower) THEN tech_images
        ELSE IF AnyIn(fb_fashion_words, prompt_lower) THEN fashion_images
        ELSE IF AnyIn(fb_food_words, prompt_lower) THEN food_images
        ELSE IF AnyIn(fb_health_words, prompt_lower) THEN health_images
        ELSE << >>

\* hash(s): fixed for the life of the process, randomised between processes
hash(s) == hashOf[s]

\* a resolver whose index also moves with the calls made so far
get_smart_fallback_image_drifting(prompt_) ==
    LET images == fallback_list(prompt_)
        ncalled == Len(fb_seen[prompt_])
    IN  IF Len(images) = 0 THEN default_image
        ELSE images[((hash(prompt_) + ncalled) % Len(images)) + 1]

\* images[hash(prompt) % len(images)]; Python's % with a positive divisor
\* is never negative, as is TLA+'s.
get_smart_fallback_image(prompt_) ==
    LET images == fallback_list(prompt_)
    IN  IF Len(images) = 0 THEN default_image
        ELSE images[(hash(prompt_) % Len(images)) + 1]

(***************************************************************************)
(* State after construction of an AIImageGenerator (__init__), before any  *)
(* generation run has started.                                             *)
(***************************************************************************)
Adapters == {"dalle", "stability", "huggingface"}

\* the steps of one acquisition: the three adapters and download_image
Steps == Adapters \cup {"download"}

empty_images ==
    [ hero_background |-> << >>, product_showcase |-> << >>,
      feature_icons |-> << >>, gallery_items |-> << >> ]

\* no value returned by generate_for_website yet
NoResult ==
    [ success |-> FALSE, product_name |-> "", category |-> "",
      images |-> empty_images, generated_at |-> 0, total_images |-> 0 ]

RunIdle ==
    /\ product_name = "Artisan Coffee Roaster"
    /\ api_preference = "auto"
    /\ openai_api_key = FALSE
    /\ stability_api_key = FALSE
    /\ huggingface_token = FALSE
    /\ pc = "idle"
    /\ category = None
    /\ cfg = 1
    /\ i = 0
    /\ prompt = None
    /\ image_url = None
    /\ image_path = None
    /\ hf_status = 0
    /\ hf_log = << >>
    /\ now = 0
    /\ attempt = [a \in Steps |-> "none"]
    /\ generated_images = empty_images
    /\ web_result = NoResult
    /\ raised = FALSE
    /\ invoked = [a \in Adapters |-> 0]
    /\ requests = [a \in Adapters |-> 0]
    /\ faults = 0
    /\ request_raised = [a \in Steps |-> FALSE]
    /\ genuine_success = FALSE

\* no site has been generated
NoSite ==
    [ ai_images |-> << >>, hero_bg_image |-> None,
      product_showcase |-> << >>, gallery_items |-> << >>,
      ai_images_generated |-> FALSE, total_ai_images |-> 0 ]

SiteIdle ==
    /\ use_ai_images = TRUE
    /\ site = NoSite

\* no EnhancedGPTSiteGenerator exists, generate_product_image was not called
GptIdle ==
    /\ environ = ""
    /\ api_key = None
    /\ openai_module = TRUE
    /\ gpt_calls = << >>

\* clean_dalle_prompt was not called directly
NoCleanCall == [prompt |-> "", clean_prompt |-> None]

WriterRuns == {1, 2}

\* no run has written to the output directory
WrIdle ==
    /\ clock = 0
    /\ w_product = [r \in WriterRuns |-> "Artisan Coffee Roaster"]
    /\ w_pos = [r \in WriterRuns |-> 0]
    /\ w_ready = [r \in WriterRuns |-> 0]
    /\ written = [r \in WriterRuns |-> {}]

\* a HuggingFaceImageGenerator without token, generate_image not called
HfgIdle ==
    /\ hfg_token = FALSE
    /\ hfg_model = None
    /\ hfg_pc = "idle"
    /\ hfg_log = << >>
    /\ hfg_files = {}
    /\ hfg_ret = None
    /\ hfg_raised = FALSE
    /\ hfg_now = 0

MoreIdle ==
    /\ GptIdle
    /\ clean_call = NoCleanCall
    /\ WrIdle
    /\ HfgIdle

OtherIdle == SiteIdle /\ MoreIdle

ExtIdle ==
    /\ acquired = << >>
    /\ hf_result = "none"
    /\ OtherIdle

(***************************************************************************)
(* Direct calls of the categorizers                                        *)
(***************************************************************************)
ProductNames ==
    { "smart coffee maker", "Smart Coffee Maker", "Artisan Coffee Roaster",
      "Smart Fitness Watch", "Artisan Coffee Shop", "Designer Handbag",
      "Yoga Mat", "Business Consulting", "Premium Headphones",
      "Wooden Widget", "Tea Dress", "Golf Cart" }

Categorizers == {"categorize_product", "_fallback_categorization"}

\* the categorizer of the site generator that wraps AIImageGenerator
KeywordCategorizers ==
    Categorizers \cup {"AIEnhancedSiteGenerator.categorize_product"}

NoCatCall == [name |-> "", result |-> ""]

CatIdle == cat_call = [f \in KeywordCategorizers |-> NoCatCall]

\* generator.categorize_product(name)
CategorizeProduct(name) ==
    /\ cat_call' = [cat_call EXCEPT !["categorize_product"] =
                      [name |-> name, result |-> categorize_product(name)]]
    /\ UNCHANGED << runVars, extVars, hashOf, fb_seen, p_name, p_type, p_theme,
                    provider_outcome, last >>

\* site_generator._fallback_categorization(name)
FallbackCategorization(name) ==
    /\ cat_call' = [cat_call EXCEPT !["_fallback_categorization"] =
                      [name |-> name,
                       result |-> _fallback_categorization(name)]]
    /\ UNCHANGED << runVars, extVars, hashOf, fb_seen, p_name, p_type, p_theme,
                    provider_outcome, last >>

\* category = self.categorize_product(product_name) of the site generator
EnhancedCategorizeProduct(name) ==
    /\ cat_call' =
         [cat_call EXCEPT !["AIEnhancedSiteGenerator.categorize_product"] =
            [name |-> name,
             result |-> AIEnhancedSiteGenerator_categorize_product(name)]]
    /\ UNCHANGED << runVars, extVars, hashOf, fb_seen, p_name, p_type, p_theme,
                    provider_outcome, last >>

(***************************************************************************)
(* Direct calls of generate_prompt by two callers stepped side by side,    *)
(* each seeing provider outcomes between its calls                         *)
(***************************************************************************)
Runs == {1, 2}

ImageTypes == {"hero_background", "product_showcase", "feature_icon",
               "gallery_item"}

Themes == (DOMAIN themes) \cup {"general"}

\* variation indexes 0 .. 3N-1 cover i and i+N for every i in [0, 2N)
Variations == 0 .. (3 * Len(themes["technology"].styles) - 1)

ProviderOutcomes == {"success", "failure"}

NoCall ==
    [ variation |-> -1, after |-> "none", text |-> "",
      triple |-> [style |-> "", environment |-> "", lighting |-> ""] ]

PromptIdle ==
    /\ p_name = "Artisan Coffee Roaster"
    /\ p_type = "gallery_item"
    /\ p_theme = "food_beverage"
    /\ provider_outcome = "success"
    /\ last = [r \in Runs |-> NoCall]

\* a provider answers the caller
ObserveProvider(o) ==
    /\ provider_outcome' = o
    /\ UNCHANGED << runVars, extVars, hashOf, fb_seen, cat_call, p_name, p_type,
                    p_theme, last >>

\* run r calls generate_prompt(p_name, p_type, p_theme, v)
GeneratePrompt(r, v) ==
    /\ last' = [last EXCEPT ![r] =
                 [ variation |-> v,
                   after     |-> provider_outcome,
                   text      |-> generate_prompt(p_name, p_type, p_theme, v),
                   triple    |-> prompt_triple(p_theme, v) ]]
    /\ UNCHANGED << runVars, extVars, hashOf, fb_seen, cat_call, p_name, p_type,
                    p_theme, provider_outcome >>

(***************************************************************************)
(* Direct calls of get_smart_fallback_image within one process             *)
(***************************************************************************)
HashMax == 2
MaxRepeat == 2

HashValues == (-HashMax) .. HashMax

FallbackPrompts ==
    { "appetizing commercial lifestyle photography showing Artisan Coffee Roaster in use, marble countertop, warm golden lighting, realistic, high quality, 8K resolution, professional photography, commercial quality, detailed, vibrant colors",
      "Gaming Laptop bag",
      "Wooden Widget" }

FbIdle ==
    /\ hashOf = [q \in FallbackPrompts |-> 0]
    /\ fb_seen = [q \in FallbackPrompts |-> << >>]

\* url = get_smart_fallback_image(q)
CallFallback(q) ==
    /\ Len(fb_seen[q]) < MaxRepeat
    /\ fb_seen' = [fb_seen EXCEPT ![q] =
                     Append(@, get_smart_fallback_image(q))]
    /\ UNCHANGED << runVars, extVars, hashOf, cat_call, p_name, p_type, p_theme,
                    provider_outcome, last >>

(***************************************************************************)
(* Specifications of the direct calls                                      *)
(***************************************************************************)
InitCat == RunIdle /\ ExtIdle /\ CatIdle /\ PromptIdle /\ FbIdle

NextCat ==
    \/ \E name \in ProductNames : CategorizeProduct(name)
    \/ \E name \in ProductNames : FallbackCategorization(name)
    \/ \E name \in ProductNames : EnhancedCategorizeProduct(name)

SpecCat == InitCat /\ [][NextCat]_vars

InitPrompt ==
    /\ RunIdle /\ ExtIdle /\ CatIdle /\ FbIdle
    /\ p_name = "Artisan Coffee Roaster"
    /\ p_type \in ImageTypes
    /\ p_theme \in Themes
    /\ provider_outcome = "success"
    /\ last = [r \in Runs |-> NoCall]

NextPrompt ==
    \/ \E o \in ProviderOutcomes : ObserveProvider(o)
    \/ \E r \in Runs, v \in Variations : GeneratePrompt(r, v)

SpecPrompt == InitPrompt /\ [][NextPrompt]_vars

\* product names of growing length: generate_prompt takes any str
MaxNameRepeat == 30

RECURSIVE Repeated(_, _)
Repeated(s, n) == IF n = 0 THEN "" ELSE s \o Repeated(s, n - 1)

LongNames ==
    {"Artisan Coffee Roaster" \o Repeated(" Artisan Coffee Roaster", n) :
        n \in 0..MaxNameRepeat}

InitLength ==
    /\ RunIdle /\ ExtIdle /\ CatIdle /\ FbIdle
    /\ p_name \in LongNames
    /\ p_type \in ImageTypes
    /\ p_theme \in Themes
    /\ provider_outcome = "success"
    /\ last = [r \in Runs |-> NoCall]

NextLength == \E v \in Variations : GeneratePrompt(1, v)

SpecLength == InitLength /\ [][NextLength]_vars

InitFallback ==
    /\ RunIdle /\ ExtIdle /\ CatIdle /\ PromptIdle
    /\ hashOf \in [FallbackPrompts -> HashValues]
    /\ fb_seen = [q \in FallbackPrompts |-> << >>]

NextFallback == \E q \in FallbackPrompts : CallFallback(q)

SpecFallback == InitFallback /\ [][NextFallback]_vars

\* prompts holding keywords of several domains, of one, of none
DomainPrompts ==
    { "Gaming Laptop bag",
      "Watch for Coffee",
      "Yoga Drink",
      "Beauty Serum",
      "Wooden Widget",
      "Biotech Supplement",
      "KITCHEN Scale",
      "Smartphone Fitness Handbag Food",
      "Running Shoes" }

\* a process that is asked to resolve one prompt
InitDomain ==
    /\ RunIdle /\ ExtIdle /\ CatIdle /\ PromptIdle
    /\ \E q \in DomainPrompts :
         /\ hashOf \in [{q} -> HashValues]
         /\ fb_seen = [p \in {q} |-> << >>]

NextDomain == \E q \in DOMAIN fb_seen : CallFallback(q)

SpecDomain == InitDomain /\ [][NextDomain]_vars

(***************************************************************************)
(* A generation run: AIImageGenerator.generate_for_website, which calls    *)
(* generate_product_images, which drives the three adapters per image.     *)
(***************************************************************************)
MaxFaults == 2

output_dir == "generated_images"

\* a configuration that asks for a fifth gallery image
image_configs_five_gallery ==
    << [image_type |-> "hero_background",  count |-> 1],
       [image_type |-> "product_showcase", count |-> 2],
       [image_type |-> "feature_icon",     count |-> 3],
       [image_type |-> "gallery_item",     count |-> 5] >>

image_configs ==
    << [image_type |-> "hero_background",  count |-> 1],
       [image_type |-> "product_showcase", count |-> 2],
       [image_type |-> "feature_icon",     count |-> 3],
       [image_type |-> "gallery_item",     count |-> 4] >>

image_type_now == image_configs[cfg].image_type

\* the acquisitions in the order the loops of generate_product_images
\* prescribe: image_configs in order, variation 0 .. count-1 within each
RECURSIVE ConfigOrder(_)
ConfigOrder(c) ==
    IF c > Len(image_configs) THEN << >>
    ELSE [ v \in 1..image_configs[c].count |->
             [ image_type |-> image_configs[c].image_type,
               variation  |-> v - 1 ] ] \o ConfigOrder(c + 1)

\* the key of generated_images an image type is appended to
result_key(image_type) ==
    IF image_type = "feature_icon" THEN "feature_icons"
    ELSE IF image_type = "gallery_item" THEN "gallery_items"
    ELSE image_type

\* f"{product_name.replace(' ', '_').lower()}_{image_type}_{i+1}_{ts}.png"
dalle_filename(name, image_type, idx, ts) ==
    Lower(ReplaceChar(name, " ", "_")) \o "_" \o image_type \o "_"
        \o ToString(idx + 1) \o "_" \o ToString(ts) \o ".png"

\* f"stability_{timestamp}.png"
stability_filename(ts) == "stability_" \o ToString(ts) \o ".png"

\* f"huggingface_{image_type}_{i}_{timestamp}.png"
huggingface_filename(image_type, idx, ts) ==
    "huggingface_" \o image_type \o "_" \o ToString(idx) \o "_"
        \o ToString(ts) \o ".png"

\* the URL a successful DALL-E response carries in data[0].url
dalle_url == "https://oaidalleapiprodscus.blob.core.windows.net/img.png"

\* what a requests.post / requests.get can end in
DalleOutcomes     == {"ok", "malformed", "http_error", "exception"}
DownloadOutcomes  == {"ok", "http_error", "exception"}
StabilityOutcomes == {"ok", "malformed", "http_error", "exception"}
HFResponses       == {"200", "200_empty", "503", "500", "exception"}
SaveOutcomes      == {"ok", "write_error"}

status_code(resp) ==
    IF resp \in {"200", "200_empty"} THEN 200
    ELSE IF resp = "503" THEN 503
    ELSE 500

\* every outcome but the successful one uses up one fault of the environment
Fault(o) == o \notin {"ok", "200"}

EnvAllows(o) == Fault(o) => faults < MaxFaults

Bump(f, a) == [f EXCEPT ![a] = @ + 1]

\* the same call without the try/except around it
hf_exception_target_uncaught(e) == "raise"

\* where control goes when generate_with_huggingface raises: the
\* try/except Exception of generate_product_images prints and falls through
hf_exception_target(e) == "store"

\* line 361 with the preference test dropped
dalle_wanted_whatever_preference == TRUE

\* the conditions guarding the three provider blocks of the loop body
dalle_wanted == api_preference \in {"dalle", "auto"}

\* line 367 without its "not image_path" conjunct
stability_wanted_ignoring_path == api_preference \in {"stability", "auto"}

stability_wanted ==
    image_path = None /\ api_preference \in {"stability", "auto"}

\* line 370 without its "not image_path" conjunct
huggingface_wanted_ignoring_path ==
    api_preference \in {"huggingface", "auto"}

huggingface_wanted ==
    image_path = None /\ api_preference \in {"huggingface", "auto"}

\* generate_for_website(product_name, api_preference) is entered
\* generate_product_images: categorize and set up the result dict
StartRun ==
    /\ pc = "start"
    /\ category' = categorize_product(product_name)
    /\ generated_images' = empty_images
    /\ cfg' = 1
    /\ i' = 0
    /\ pc' = "image"
    /\ UNCHANGED << product_name, api_preference, openai_api_key,
                    stability_api_key, huggingface_token, prompt, image_url,
                    image_path, hf_status, hf_log, now, attempt, web_result,
                    raised,
                    invoked, requests, faults, request_raised,
                    genuine_success, fnVars, extVars >>

\* top of the inner loop body: prompt, size, image_path = None
BeginImage ==
    /\ pc = "image"
    /\ prompt' = generate_prompt(product_name, image_type_now, category, i)
    /\ image_path' = None
    /\ image_url' = None
    /\ hf_status' = 0
    /\ hf_log' = << >>
    /\ attempt' = [a \in Steps |-> "none"]
    /\ invoked' = [a \in Adapters |-> 0]
    /\ requests' = [a \in Adapters |-> 0]
    /\ request_raised' = [a \in Steps |-> FALSE]
    /\ hf_result' = "none"
    /\ pc' = "dalle"
    /\ UNCHANGED << product_name, api_preference, openai_api_key,
                    stability_api_key, huggingface_token, category, cfg, i,
                    now, generated_images, web_result, raised, faults,
                    genuine_success, fnVars, acquired, otherVars >>

\* if api_preference == "dalle" or api_preference == "auto": ... is false
SkipDalle ==
    /\ pc = "dalle"
    /\ ~dalle_wanted
    /\ pc' = "stability"
    /\ UNCHANGED << product_name, api_preference, openai_api_key,
                    stability_api_key, huggingface_token, category, cfg, i,
                    prompt, image_url, image_path, hf_status, hf_log, now,
                    attempt,
                    generated_images, web_result, raised, invoked, requests,
                    faults, request_raised,
                    genuine_success, fnVars, extVars >>

\* image_url = self.generate_with_openai_dalle(prompt, size)
CallDalle ==
    /\ pc = "dalle"
    /\ dalle_wanted
    /\ invoked' = Bump(invoked, "dalle")
    /\ \/ /\ ~openai_api_key
          /\ image_url' = None
          /\ attempt' = [attempt EXCEPT !["dalle"] = "no_credential"]
          /\ pc' = "stability"
          /\ UNCHANGED << requests, faults, request_raised,
                          genuine_success >>
       \/ /\ openai_api_key
          /\ \E o \in DalleOutcomes :
               /\ EnvAllows(o)
               /\ requests' = Bump(requests, "dalle")
               /\ faults' = IF Fault(o) THEN faults + 1 ELSE faults
               /\ request_raised' =
                    [request_raised EXCEPT !["dalle"] = (o = "exception")]
               /\ genuine_success' = (genuine_success \/ o = "ok")
               /\ image_url' = IF o = "ok" THEN dalle_url ELSE None
               /\ attempt' = [attempt EXCEPT !["dalle"] =
                                IF o = "ok" THEN "success" ELSE "failure"]
               /\ pc' = IF o = "ok" THEN "download" ELSE "stability"
    /\ UNCHANGED << product_name, api_preference, openai_api_key,
                    stability_api_key, huggingface_token, category, cfg, i,
                    prompt, image_path, hf_status, hf_log, now,
                    generated_images,
                    web_result, raised, fnVars, extVars >>

\* image_path = self.download_image(image_url, filename)
DownloadImage ==
    /\ pc = "download"
    /\ \E o \in DownloadOutcomes :
         /\ EnvAllows(o)
         /\ faults' = IF Fault(o) THEN faults + 1 ELSE faults
         /\ image_path' =
              IF o = "ok"
              THEN path_join(output_dir,
                     dalle_filename(product_name, image_type_now, i, now))
              ELSE None
         /\ attempt' = [attempt EXCEPT !["download"] =
                          IF o = "ok" THEN "success" ELSE "failure"]
         /\ request_raised' =
              [request_raised EXCEPT !["download"] = (o = "exception")]
    /\ pc' = "stability"
    /\ UNCHANGED << product_name, api_preference, openai_api_key,
                    stability_api_key, huggingface_token, category, cfg, i,
                    prompt, image_url, hf_status, hf_log, now,
                    generated_images,
                    web_result, raised, invoked, requests,
                    genuine_success, fnVars, extVars >>

\* if not image_path and (api_preference == "stability" or ... "auto") is false
SkipStability ==
    /\ pc = "stability"
    /\ ~stability_wanted
    /\ pc' = "huggingface"
    /\ UNCHANGED << product_name, api_preference, openai_api_key,
                    stability_api_key, huggingface_token, category, cfg, i,
                    prompt, image_url, image_path, hf_status, hf_log, now,
                    attempt,
                    generated_images, web_result, raised, invoked, requests,
                    faults, request_raised,
                    genuine_success, fnVars, extVars >>

\* generate_with_stability_ai without the check of lines 199-201
CallStability_without_key_check ==
    /\ pc = "stability"
    /\ stability_wanted
    /\ invoked' = Bump(invoked, "stability")
    /\ \E o \in StabilityOutcomes :
         /\ EnvAllows(o)
         /\ requests' = Bump(requests, "stability")
         /\ faults' = IF Fault(o) THEN faults + 1 ELSE faults
         /\ image_path' =
              IF o = "ok"
              THEN path_join(output_dir, stability_filename(now))
              ELSE None
         /\ attempt' = [attempt EXCEPT !["stability"] =
                          IF o = "ok" THEN "success" ELSE "failure"]
         /\ request_raised' =
              [request_raised EXCEPT !["stability"] = (o = "exception")]
         /\ genuine_success' = (genuine_success \/ o = "ok")
    /\ pc' = "huggingface"
    /\ UNCHANGED << product_name, api_preference, openai_api_key,
                    stability_api_key, huggingface_token, category, cfg, i,
                    prompt, image_url, hf_status, hf_log, now,
                    generated_images,
                    web_result, raised, fnVars, extVars >>

\* image_path = self.generate_with_stability_ai(prompt, size)
CallStability ==
    /\ pc = "stability"
    /\ stability_wanted
    /\ invoked' = Bump(invoked, "stability")
    /\ \/ /\ ~stability_api_key
          /\ image_path' = None
          /\ attempt' = [attempt EXCEPT !["stability"] = "no_credential"]
          /\ UNCHANGED << requests, faults, request_raised,
                          genuine_success >>
       \/ /\ stability_api_key
          /\ \E o \in StabilityOutcomes :
               /\ EnvAllows(o)
               /\ requests' = Bump(requests, "stability")
               /\ faults' = IF Fault(o) THEN faults + 1 ELSE faults
               /\ image_path' =
                    IF o = "ok"
                    THEN path_join(output_dir, stability_filename(now))
                    ELSE None
               /\ attempt' = [attempt EXCEPT !["stability"] =
                                IF o = "ok" THEN "success" ELSE "failure"]
               /\ request_raised' =
                    [request_raised EXCEPT !["stability"] = (o = "exception")]
               /\ genuine_success' = (genuine_success \/ o = "ok")
    /\ pc' = "huggingface"
    /\ UNCHANGED << product_name, api_preference, openai_api_key,
                    stability_api_key, huggingface_token, category, cfg, i,
                    prompt, image_url, hf_status, hf_log, now,
                    generated_images,
                    web_result, raised, fnVars, extVars >>

\* if not image_path and (api_preference == "huggingface" or "auto") is false
SkipHuggingface ==
    /\ pc = "huggingface"
    /\ ~huggingface_wanted
    /\ pc' = "store"
    /\ UNCHANGED << product_name, api_preference, openai_api_key,
                    stability_api_key, huggingface_token, category, cfg, i,
                    prompt, image_url, image_path, hf_status, hf_log, now,
                    attempt,
                    generated_images, web_result, raised, invoked, requests,
                    faults, request_raised,
                    genuine_success, fnVars, extVars >>

first_model  == "stabilityai/stable-diffusion-2-1"

\* a last attempt that posts to the first model once more
second_model_same_as_first == "stabilityai/stable-diffusion-2-1"

second_model == "runwayml/stable-diffusion-v1-5"

\* a requests.post whose timeout or connection error is swallowed
request_raises_never(resp) == FALSE

\* requests.post raised (timeout, connection error): control leaves the try
\* block for "except Exception as e"
request_raises(resp) == resp = "exception"

\* the ways a request of generate_with_huggingface continues, given the
\* response resp to it and the position next to take on a non-200 status
HFAfterResponse(model, resp, on_failure) ==
    /\ EnvAllows(resp)
    /\ requests' = Bump(requests, "huggingface")
    /\ hf_log' = Append(hf_log, [model |-> model, resp |-> resp])
    /\ faults' = IF Fault(resp) THEN faults + 1 ELSE faults
    /\ hf_status' = IF resp = "exception" THEN hf_status
                    ELSE status_code(resp)
    /\ request_raised' =
         [request_raised EXCEPT !["huggingface"] = (resp = "exception")]
    /\ genuine_success' = (genuine_success \/ resp = "200")
    /\ hf_result' =
         IF request_raises(resp) THEN "raised"
         ELSE IF resp = "200" THEN "bytes"
         ELSE IF resp = "200_empty" THEN "empty"
         ELSE IF on_failure = "raise" THEN "raised"
         ELSE hf_result
    /\ IF request_raises(resp)
       THEN \* except Exception as e: raise Exception("Hugging Face API error")
            /\ attempt' = [attempt EXCEPT !["huggingface"] = "failure"]
            /\ pc' = IF hf_exception_target(resp) = "raise" THEN "done"
                     ELSE hf_exception_target(resp)
            /\ raised' = (hf_exception_target(resp) = "raise")
       ELSE IF resp = "200"
       THEN \* return response.content; if image_content: is true
            /\ attempt' = [attempt EXCEPT !["huggingface"] = "success"]
            /\ pc' = "hf_save"
            /\ UNCHANGED raised
       ELSE IF resp = "200_empty"
       THEN \* return response.content; if image_content: is false
            /\ attempt' = [attempt EXCEPT !["huggingface"] = "failure"]
            /\ pc' = "store"
            /\ UNCHANGED raised
       ELSE IF on_failure = "raise"
       THEN \* raise Exception(f"{response.status_code} - {response.text}")
            /\ attempt' = [attempt EXCEPT !["huggingface"] = "failure"]
            /\ pc' = IF hf_exception_target(resp) = "raise" THEN "done"
                     ELSE hf_exception_target(resp)
            /\ raised' = (hf_exception_target(resp) = "raise")
       ELSE /\ attempt' = [attempt EXCEPT !["huggingface"] = "busy"]
            /\ pc' = on_failure
            /\ UNCHANGED raised

\* a first response handled like the busy one whatever its status
after_first_retrying_always(resp) == "hf_retry"

\* where generate_with_huggingface goes after a first response that is not
\* a 200: 503 sleeps and posts again, any other status skips to the test
\* "if response.status_code != 200" before the second model
after_first(resp) == IF resp = "503" THEN "hf_retry" ELSE "hf_second"

\* image_content = self.generate_with_huggingface(prompt): the credential
\* check and the first requests.post
HFFirstRequest ==
    /\ pc = "huggingface"
    /\ huggingface_wanted
    /\ invoked' = Bump(invoked, "huggingface")
    /\ \/ /\ ~huggingface_token
          \* raise Exception("HUGGINGFACE_TOKEN not found in environment")
          /\ attempt' = [attempt EXCEPT !["huggingface"] = "no_credential"]
          /\ pc' = IF hf_exception_target("no_token") = "raise" THEN "done"
                   ELSE hf_exception_target("no_token")
          /\ raised' = (hf_exception_target("no_token") = "raise")
          /\ hf_result' = "raised"
          /\ UNCHANGED << requests, faults, hf_status, hf_log, now,
                          request_raised, genuine_success >>
       \/ /\ huggingface_token
          /\ \E resp \in HFResponses :
               /\ HFAfterResponse(first_model, resp, after_first(resp))
               \* elif response.status_code == 503: ... time.sleep(10)
               /\ now' = IF resp = "503" THEN now + 10 ELSE now
    /\ UNCHANGED << product_name, api_preference, openai_api_key,
                    stability_api_key, huggingface_token, category, cfg, i,
                    prompt, image_url, image_path, generated_images,
                    web_result, fnVars, acquired, otherVars >>

\* a retry that raises on a non-200 answer instead of trying the second model
HFRetry_giving_up ==
    /\ pc = "hf_retry"
    /\ \E resp \in HFResponses :
         HFAfterResponse(first_model, resp, "raise")
    /\ UNCHANGED << product_name, api_preference, openai_api_key,
                    stability_api_key, huggingface_token, category, cfg, i,
                    prompt, image_url, image_path, now, generated_images,
                    web_result, invoked, fnVars, acquired, otherVars >>

\* the second requests.post to the first model, after the 503 and the sleep
HFRetry ==
    /\ pc = "hf_retry"
    /\ \E resp \in HFResponses :
         HFAfterResponse(first_model, resp, "hf_second")
    /\ UNCHANGED << product_name, api_preference, openai_api_key,
                    stability_api_key, huggingface_token, category, cfg, i,
                    prompt, image_url, image_path, now, generated_images,
                    web_result, invoked, fnVars, acquired, otherVars >>

\* if response.status_code != 200: requests.post to the simpler model
HFSecondModel ==
    /\ pc = "hf_second"
    /\ \E resp \in HFResponses :
         HFAfterResponse(second_model, resp, "raise")
    /\ UNCHANGED << product_name, api_preference, openai_api_key,
                    stability_api_key, huggingface_token, category, cfg, i,
                    prompt, image_url, image_path, now, generated_images,
                    web_result, invoked, fnVars, acquired, otherVars >>

\* with open(filepath, "wb") as f: f.write(image_content); image_path = filepath
HFSave ==
    /\ pc = "hf_save"
    /\ \E o \in SaveOutcomes :
         /\ EnvAllows(o)
         /\ faults' = IF Fault(o) THEN faults + 1 ELSE faults
         /\ image_path' =
              IF o = "ok"
              THEN path_join(output_dir,
                     huggingface_filename(image_type_now, i, now))
              ELSE None
         /\ pc' = IF o = "ok" \/ hf_exception_target(o) # "raise"
                  THEN "store" ELSE "done"
         /\ raised' = (o # "ok" /\ hf_exception_target(o) = "raise")
    /\ UNCHANGED << product_name, api_preference, openai_api_key,
                    stability_api_key, huggingface_token, category, cfg, i,
                    prompt, image_url, hf_status, hf_log, now, attempt,
                    generated_images, web_result, invoked, requests,
                    request_raised,
                    genuine_success, fnVars, extVars >>

\* if image_path: append to the list of the slot, else print the failure;
\* time.sleep(1); next iteration of the loops or return generated_images
StoreImage ==
    /\ pc = "store"
    /\ generated_images' =
         IF image_path # None
         THEN [generated_images EXCEPT ![result_key(image_type_now)] =
                 Append(@, image_path)]
         ELSE generated_images
    /\ now' = now + 1
    /\ acquired' = Append(acquired,
                      [ image_type |-> image_type_now,
                        variation  |-> i,
                        stored     |-> image_path # None,
                        path       |-> image_path,
                        provider_success |->
                            \E a \in Adapters : attempt[a] = "success" ])
    /\ IF i + 1 < image_configs[cfg].count
       THEN /\ i' = i + 1
            /\ cfg' = cfg
            /\ pc' = "image"
       ELSE IF cfg < Len(image_configs)
       THEN /\ i' = 0
            /\ cfg' = cfg + 1
            /\ pc' = "image"
       ELSE /\ UNCHANGED << i, cfg >>
            /\ pc' = "returned"
    /\ UNCHANGED << product_name, api_preference, openai_api_key,
                    stability_api_key, huggingface_token, category, prompt,
                    image_url, image_path, hf_status, hf_log, attempt,
                    web_result,
                    raised, invoked, requests, faults, request_raised,
                    genuine_success, fnVars, hf_result, otherVars >>

\* path.replace(self.output_dir, '/generated_images') on every path
web_images_of(images) ==
    [ k \in DOMAIN images |->
        [ n \in 1..Len(images[k]) |->
            Replace(images[k][n], output_dir, "/generated_images") ] ]

\* a total that counts the keys of the dict instead of the paths
total_images_of_counting_keys(images) == Cardinality(DOMAIN images)

total_images_of(images) ==
    Len(images.hero_background) + Len(images.product_showcase)
        + Len(images.feature_icons) + Len(images.gallery_items)

\* generate_for_website after generate_product_images has returned
BuildWebResult ==
    /\ pc = "returned"
    /\ web_result' =
         [ success      |-> TRUE,
           product_name |-> product_name,
           category     |-> categorize_product(product_name),
           images       |-> web_images_of(generated_images),
           generated_at |-> now,
           total_images |-> total_images_of(generated_images) ]
    /\ pc' = "done"
    /\ UNCHANGED << product_name, api_preference, openai_api_key,
                    stability_api_key, huggingface_token, category, cfg, i,
                    prompt, image_url, image_path, hf_status, hf_log, now,
                    attempt,
                    generated_images, raised, invoked, requests, faults,
                    request_raised,
                    genuine_success, fnVars, extVars >>

\* generate_site_with_ai_images with use_ai_images=True, after
\* generate_for_website has returned image_result: ai_images is
\* image_result['images'] when image_result['success'], else the empty dict
ai_images_of(image_result) ==
    IF image_result.success THEN image_result.images ELSE << >>

\* the image entries of the metadata written next to index.html;
\* len(ai_images) is the number of keys of the dict
site_metadata(image_result) ==
    LET ai_images == ai_images_of(image_result)
    IN  [ ai_enhanced         |-> TRUE,
          ai_images_generated |-> Cardinality(DOMAIN ai_images) > 0,
          total_ai_images     |->
              IF Cardinality(DOMAIN ai_images) > 0
              THEN total_images_of(ai_images) ELSE 0 ]

RunProducts == {"Artisan Coffee Roaster"}

Preferences == {"dalle", "stability", "huggingface", "auto"}

Init ==
    /\ product_name \in RunProducts
    /\ api_preference \in Preferences
    /\ openai_api_key \in BOOLEAN
    /\ stability_api_key \in BOOLEAN
    /\ huggingface_token \in BOOLEAN
    /\ pc = "start"
    /\ category = None
    /\ cfg = 1
    /\ i = 0
    /\ prompt = None
    /\ image_url = None
    /\ image_path = None
    /\ hf_status = 0
    /\ hf_log = << >>
    /\ now = 0
    /\ attempt = [a \in Steps |-> "none"]
    /\ generated_images = empty_images
    /\ web_result = NoResult
    /\ raised = FALSE
    /\ invoked = [a \in Adapters |-> 0]
    /\ requests = [a \in Adapters |-> 0]
    /\ faults = 0
    /\ request_raised = [a \in Steps |-> FALSE]
    /\ genuine_success = FALSE
    /\ ExtIdle /\ CatIdle /\ PromptIdle /\ FbIdle

Next ==
    \/ StartRun
    \/ BeginImage
    \/ SkipDalle
    \/ CallDalle
    \/ DownloadImage
    \/ SkipStability
    \/ CallStability
    \/ SkipHuggingface
    \/ HFFirstRequest
    \/ HFRetry
    \/ HFSecondModel
    \/ HFSave
    \/ StoreImage
    \/ BuildWebResult

Spec == Init /\ [][Next]_vars

\* the run is one sequential thread and every network request returns or
\* times out (timeout=30, 60, 120 on every requests.post/get): a step that
\* can be taken is taken
SpecLive == Spec /\ WF_vars(Next)

(***************************************************************************)
(* AIEnhancedSiteGenerator.generate_site_with_ai_images around the run     *)
(***************************************************************************)
\* ai_images.get(key) is truthy: the key is there with a non-empty list
dict_get(d, key) == key \in DOMAIN d /\ Len(d[key]) > 0

\* the hard-wired hero background of generate_enhanced_html_with_ai_images
default_hero == "https://source.unsplash.com/1920x1080/?technology"

\* the images generate_enhanced_html_with_ai_images puts into the page
hero_bg_image_of(ai_images) ==
    IF dict_get(ai_images, "hero_background")
    THEN ai_images["hero_background"][1] ELSE default_hero

showcase_of(ai_images) ==
    IF dict_get(ai_images, "product_showcase")
    THEN << ai_images["product_showcase"][1] >> ELSE << >>

gallery_of(ai_images) ==
    IF dict_get(ai_images, "gallery_items")
    THEN SubSeq(ai_images["gallery_items"], 1,
                IF Len(ai_images["gallery_items"]) < 4
                THEN Len(ai_images["gallery_items"]) ELSE 4)
    ELSE << >>

\* the page and the metadata built from ai_images
site_of(ai_images) ==
    [ ai_images        |-> ai_images,
      hero_bg_image    |-> hero_bg_image_of(ai_images),
      product_showcase |-> showcase_of(ai_images),
      gallery_items    |-> gallery_of(ai_images),
      ai_images_generated |-> Cardinality(DOMAIN ai_images) > 0,
      total_ai_images  |->
          IF Cardinality(DOMAIN ai_images) > 0
          THEN total_images_of(ai_images) ELSE 0 ]

\* generate_site_with_ai_images is entered: ai_images = {} and, under
\* "if use_ai_images:", the call of generate_for_website
EnterSite ==
    /\ pc = "site_start"
    /\ pc' = IF use_ai_images THEN "start" ELSE "site_html"
    /\ UNCHANGED << product_name, api_preference, openai_api_key,
                    stability_api_key, huggingface_token, category, cfg, i,
                    prompt, image_url, image_path, hf_status, hf_log, now,
                    attempt, generated_images, web_result, raised, invoked,
                    requests, faults, request_raised, genuine_success,
                    fnVars, extVars >>

\* the rest of generate_site_with_ai_images: the page and metadata.json
FinishSite ==
    /\ pc \in {"done", "site_html"}
    /\ site' = site_of(IF pc = "done" THEN ai_images_of(web_result)
                       ELSE << >>)
    /\ pc' = "site_done"
    /\ UNCHANGED << product_name, api_preference, openai_api_key,
                    stability_api_key, huggingface_token, category, cfg, i,
                    prompt, image_url, image_path, hf_status, hf_log, now,
                    attempt, generated_images, web_result, raised, invoked,
                    requests, faults, request_raised, genuine_success,
                    fnVars, acquired, hf_result, use_ai_images, moreVars >>

InitSite ==
    /\ product_name \in RunProducts
    /\ api_preference \in Preferences
    /\ openai_api_key \in BOOLEAN
    /\ stability_api_key \in BOOLEAN
    /\ huggingface_token \in BOOLEAN
    /\ pc = "site_start"
    /\ category = None
    /\ cfg = 1
    /\ i = 0
    /\ prompt = None
    /\ image_url = None
    /\ image_path = None
    /\ hf_status = 0
    /\ hf_log = << >>
    /\ now = 0
    /\ attempt = [a \in Steps |-> "none"]
    /\ generated_images = empty_images
    /\ web_result = NoResult
    /\ raised = FALSE
    /\ invoked = [a \in Adapters |-> 0]
    /\ requests = [a \in Adapters |-> 0]
    /\ faults = 0
    /\ request_raised = [a \in Steps |-> FALSE]
    /\ genuine_success = FALSE
    /\ acquired = << >>
    /\ hf_result = "none"
    /\ use_ai_images \in BOOLEAN
    /\ site = NoSite
    /\ MoreIdle
    /\ CatIdle /\ PromptIdle /\ FbIdle

NextSite ==
    \/ EnterSite
    \/ Next
    \/ FinishSite

SpecSite == InitSite /\ [][NextSite]_vars

(***************************************************************************)
(* gpt_site_generator: generate_product_image, clean_dalle_prompt and the  *)
(* EnhancedGPTSiteGenerator that calls them from generate_themed_html      *)
(***************************************************************************)
PlaceholderKey == "your_openai_key_here"

KeyValues == {"", PlaceholderKey, "sk-test"}

\* the negation of: not openai_api_key or openai_api_key == 'your_openai_key_here'
usable_key(key) == ~(key = "" \/ key = PlaceholderKey)

clean_dalle_prompt(prompt_) ==
    LET p1 == Strip(Replace(prompt_, "professional product photo of", ""))
        p2 == Strip(Replace(p1, "studio lighting", ""))
        p3 == Strip(Replace(p2, "commercial photography style", ""))
        p4 == Strip(Replace(p3, "4K resolution", ""))
        p5 == Strip(Replace(p4, "marketing image", ""))
        p6 == IF p5 = "" THEN "product" ELSE p5
        clean_prompt ==
            "A professional product photograph of " \o p6
              \o ", clean white background, studio lighting, high quality"
    IN  IF Len(clean_prompt) > 800
        THEN "Professional photo of " \o p6 \o ", white background"
        ELSE clean_prompt

\* what client.images.generate can do: return data with a URL, return no
\* data, or raise
DalleResponses ==
    {"url", "no_data", "RateLimitError", "BadRequestError", "Exception"}

\* response.data[0].url
dalle_image_url == "https://oaidalleapiprodscus.blob.core.windows.net/img.png"

\* what leaves the function when a name that is local to it is read before
\* it was bound
UnboundLocalError == "UnboundLocalError"

\* one call of generate_product_image(prompt_) in the current environment,
\* resp being the behaviour of client.images.generate if the call gets there.
\* "import openai" binds the local name openai; when the import raises, the
\* name is unbound, and evaluating "except openai.RateLimitError" to find a
\* handler raises UnboundLocalError out of the function.
generate_product_image(prompt_, resp) ==
    LET openai_api_key_ == environ
    IN  IF ~usable_key(openai_api_key_)
        THEN [ prompt |-> prompt_, key |-> openai_api_key_, sent |-> << >>,
               response |-> None, raised |-> None,
               result |-> get_smart_fallback_image(prompt_) ]
        ELSE IF ~openai_module
        THEN [ prompt |-> prompt_, key |-> openai_api_key_, sent |-> << >>,
               response |-> None, raised |-> UnboundLocalError,
               result |-> None ]
        ELSE [ prompt |-> prompt_, key |-> openai_api_key_,
               sent |-> << clean_dalle_prompt(prompt_) >>,
               response |-> resp, raised |-> None,
               result |-> IF resp = "url" THEN dalle_image_url
                          ELSE get_smart_fallback_image(prompt_) ]

\* the prompts of one generate_themed_html: the hero background, then the
\* image_prompt of a product of the catalog
GptPrompts ==
    << "Gaming Laptop hero background",
       "professional product photo of laptop cooling pad with fans on white background" >>

\* EnhancedGPTSiteGenerator(): self.api_key is read from the environment;
\* with a non-empty key "import openai" must succeed for the object to exist
NewGenerator ==
    /\ api_key = None
    /\ gpt_calls = << >>
    /\ environ = "" \/ openai_module
    /\ api_key' = environ
    /\ UNCHANGED << runVars, fnVars, acquired, hf_result, siteVars, environ,
                    openai_module, gpt_calls, clean_call, wrVars, hfgVars >>

\* the environment of the process changes: os.environ['OPENAI_API_KEY'] = v
SetEnviron(v) ==
    /\ v # environ
    /\ environ' = v
    /\ UNCHANGED << runVars, fnVars, acquired, hf_result, siteVars, api_key,
                    openai_module, gpt_calls, clean_call, wrVars, hfgVars >>

\* the next call of generate_product_image, by generate_themed_html of the
\* generator if there is one, else by a direct caller
GenerateProductImage(resp) ==
    /\ Len(gpt_calls) < Len(GptPrompts)
    /\ gpt_calls' =
         Append(gpt_calls,
                [ call |-> generate_product_image(
                               GptPrompts[Len(gpt_calls) + 1], resp),
                  api_key |-> api_key ])
    /\ UNCHANGED << runVars, fnVars, acquired, hf_result, siteVars, environ, api_key,
                    openai_module, clean_call, wrVars, hfgVars >>

\* a process with one value of hash() per prompt
InitGpt ==
    /\ RunIdle /\ acquired = << >> /\ hf_result = "none" /\ SiteIdle /\ CatIdle /\ PromptIdle
    /\ \E h \in HashValues :
         hashOf = [q \in {GptPrompts[n] : n \in 1..Len(GptPrompts)} |-> h]
    /\ fb_seen = [q \in {GptPrompts[n] : n \in 1..Len(GptPrompts)} |-> << >>]
    /\ environ \in KeyValues
    /\ api_key = None
    /\ openai_module \in BOOLEAN
    /\ gpt_calls = << >>
    /\ clean_call = NoCleanCall
    /\ WrIdle /\ HfgIdle

NextGpt ==
    \/ NewGenerator
    \/ \E v \in KeyValues : SetEnviron(v)
    \/ \E resp \in DalleResponses : GenerateProductImage(resp)

SpecGpt == InitGpt /\ [][NextGpt]_vars

\* prompts of growing length: clean_dalle_prompt takes any str
MaxPromptRepeat == 30

CleanBases ==
    { "Gaming Laptop hero background",
      "professional product photo of laptop cooling pad with fans on white background",
      "professional product photo of",
      "studio lighting marketing image",
      "4K resolution commercial photography style",
      "Artisan Coffee Roaster, studio lighting, 4K resolution" }

CleanPrompts ==
    { Repeated(base \o " ", n) : base \in CleanBases, n \in 0..MaxPromptRepeat }

\* clean_prompt = clean_dalle_prompt(prompt)
CleanDallePrompt ==
    /\ clean_call.clean_prompt = None
    /\ clean_call' =
         [clean_call EXCEPT !.clean_prompt = clean_dalle_prompt(clean_call.prompt)]
    /\ UNCHANGED << runVars, fnVars, acquired, hf_result, siteVars, gptVars, wrVars,
                    hfgVars >>

InitClean ==
    /\ RunIdle /\ acquired = << >> /\ hf_result = "none" /\ SiteIdle /\ GptIdle
    /\ WrIdle /\ HfgIdle
    /\ CatIdle /\ PromptIdle /\ FbIdle
    /\ \E q \in CleanPrompts :
         clean_call = [prompt |-> q, clean_prompt |-> None]

NextClean == CleanDallePrompt

SpecClean == InitClean /\ [][NextClean]_vars

(***************************************************************************)
(* Two generation runs at the same time, on one machine, writing to the    *)
(* same output directory "generated_images"                                *)
(***************************************************************************)
MaxClock == 2

\* the acquisitions of each run that are followed
MaxAcquisitions == 2

WriterProducts == {"Artisan Coffee Roaster", "Gaming Laptop"}

\* the file a success of adapter a writes for the current acquisition of
\* run r in second ts
written_path(r, a, ts) ==
    LET c == ConfigOrder(1)[w_pos[r] + 1]
    IN  path_join(output_dir,
           IF a = "dalle"
           THEN dalle_filename(w_product[r], c.image_type, c.variation, ts)
           ELSE IF a = "stability" THEN stability_filename(ts)
           ELSE huggingface_filename(c.image_type, c.variation, ts))

\* the current acquisition of run r succeeds with adapter a, which writes the
\* file; then time.sleep(1)
WriteAsset(r, a) ==
    /\ w_pos[r] < MaxAcquisitions
    /\ clock >= w_ready[r]
    /\ written' = [written EXCEPT ![r] = @ \cup {written_path(r, a, clock)}]
    /\ w_pos' = [w_pos EXCEPT ![r] = @ + 1]
    /\ w_ready' = [w_ready EXCEPT ![r] = clock + 1]
    /\ UNCHANGED << runVars, fnVars, acquired, hf_result, siteVars, gptVars, clean_call,
                    clock, w_product, hfgVars >>

\* the current acquisition of run r fails with every adapter: nothing is
\* written; then time.sleep(1)
FailAsset(r) ==
    /\ w_pos[r] < MaxAcquisitions
    /\ clock >= w_ready[r]
    /\ w_pos' = [w_pos EXCEPT ![r] = @ + 1]
    /\ w_ready' = [w_ready EXCEPT ![r] = clock + 1]
    /\ UNCHANGED << runVars, fnVars, acquired, hf_result, siteVars, gptVars, clean_call,
                    clock, w_product, written, hfgVars >>

\* a second passes
Tick ==
    /\ clock < MaxClock
    /\ clock' = clock + 1
    /\ UNCHANGED << runVars, fnVars, acquired, hf_result, siteVars, gptVars, clean_call,
                    w_product, w_pos, w_ready, written, hfgVars >>

InitWriters ==
    /\ RunIdle /\ acquired = << >> /\ hf_result = "none" /\ SiteIdle /\ GptIdle
    /\ clean_call = NoCleanCall /\ HfgIdle
    /\ CatIdle /\ PromptIdle /\ FbIdle
    /\ clock = 0
    /\ w_product \in [WriterRuns -> WriterProducts]
    /\ w_pos = [r \in WriterRuns |-> 0]
    /\ w_ready = [r \in WriterRuns |-> 0]
    /\ written = [r \in WriterRuns |-> {}]

NextWriters ==
    \/ \E r \in WriterRuns, a \in Adapters : WriteAsset(r, a)
    \/ \E r \in WriterRuns : FailAsset(r)
    \/ Tick

SpecWriters == InitWriters /\ [][NextWriters]_vars

(***************************************************************************)
(* huggingface_fixed: HuggingFaceImageGenerator.generate_image(prompt,     *)
(* model) with a model given by the caller                                 *)
(***************************************************************************)
\* self.models
HfgModels ==
    { "stabilityai/stable-diffusion-xl-base-1.0",
      "runwayml/stable-diffusion-v1-5",
      "CompVis/stable-diffusion-v1-4",
      "stabilityai/stable-diffusion-2-1" }

\* what requests.post can do: answer with a status, or raise
HfgResponses == {"200", "503", "404", "500", "exception"}

\* f"hf_image_{timestamp}.png" in self.output_dir
hf_image_path(ts) ==
    path_join(output_dir, "hf_image_" \o ToString(ts) \o ".png")

\* a first answer handled like the loading one unless it is a 200
hfg_after_first_retrying_always(resp) ==
    IF resp = "200" THEN "save" ELSE "retry"

\* where generate_image goes after the first response: 200 saves the image,
\* 503 sleeps and posts again, anything else (an exception of requests.post
\* included) returns False
hfg_after_first(resp) ==
    IF resp = "200" THEN "save"
    ELSE IF resp = "503" THEN "retry"
    ELSE "returned"

\* generate_image is entered: if not self.token: return False
HfgCall ==
    /\ hfg_pc = "idle"
    /\ IF ~hfg_token
       THEN hfg_pc' = "returned" /\ hfg_ret' = "False"
       ELSE hfg_pc' = "post" /\ hfg_ret' = hfg_ret
    /\ UNCHANGED << runVars, fnVars, acquired, hf_result, siteVars, gptVars,
                    clean_call, wrVars, hfg_token, hfg_model, hfg_log,
                    hfg_files, hfg_raised, hfg_now >>

\* response = requests.post(url, headers=headers, json=payload, timeout=120)
\* and the branch on response.status_code; on 503 time.sleep(20)
HfgPost ==
    /\ hfg_pc = "post"
    /\ \E resp \in HfgResponses :
         /\ hfg_log' = Append(hfg_log,
                          [kind |-> "post", resp |-> resp, at |-> hfg_now])
         /\ hfg_pc' = hfg_after_first(resp)
         /\ hfg_ret' = IF hfg_after_first(resp) = "returned" THEN "False"
                       ELSE hfg_ret
         /\ hfg_now' = IF hfg_after_first(resp) = "retry" THEN hfg_now + 20
                       ELSE hfg_now
    /\ UNCHANGED << runVars, fnVars, acquired, hf_result, siteVars, gptVars,
                    clean_call, wrVars, hfg_token, hfg_model, hfg_files,
                    hfg_raised >>

\* "Retry once": the second requests.post, after the sleep
HfgRetry ==
    /\ hfg_pc = "retry"
    /\ \E resp \in HfgResponses :
         /\ hfg_log' = Append(hfg_log,
                          [kind |-> "post", resp |-> resp, at |-> hfg_now])
         /\ hfg_pc' = IF resp = "200" THEN "save" ELSE "returned"
         /\ hfg_ret' = IF resp = "200" THEN hfg_ret ELSE "False"
    /\ UNCHANGED << runVars, fnVars, acquired, hf_result, siteVars, gptVars,
                    clean_call, wrVars, hfg_token, hfg_model, hfg_files,
                    hfg_raised, hfg_now >>

\* with open(filepath, "wb") as f: f.write(response.content); return True.
\* The write is inside the try: when it raises, "except Exception" returns
\* False.
HfgSave ==
    /\ hfg_pc = "save"
    /\ \E o \in SaveOutcomes :
         /\ hfg_log' = Append(hfg_log,
                          [kind |-> "save", resp |-> o, at |-> hfg_now])
         /\ hfg_files' = IF o = "ok"
                         THEN hfg_files \cup {hf_image_path(hfg_now)}
                         ELSE hfg_files
         /\ hfg_ret' = IF o = "ok" THEN "True" ELSE "False"
    /\ hfg_pc' = "returned"
    /\ UNCHANGED << runVars, fnVars, acquired, hf_result, siteVars, gptVars,
                    clean_call, wrVars, hfg_token, hfg_model, hfg_raised,
                    hfg_now >>

\* a generator constructed with or without HUGGINGFACE_TOKEN, about to be
\* called with one of its models
InitHfg ==
    /\ RunIdle /\ acquired = << >> /\ hf_result = "none" /\ SiteIdle /\ GptIdle
    /\ clean_call = NoCleanCall /\ WrIdle
    /\ CatIdle /\ PromptIdle /\ FbIdle
    /\ hfg_token \in BOOLEAN
    /\ hfg_model \in HfgModels
    /\ hfg_pc = "idle"
    /\ hfg_log = << >>
    /\ hfg_files = {}
    /\ hfg_ret = None
    /\ hfg_raised = FALSE
    /\ hfg_now \in 0..MaxClock

NextHfg ==
    \/ HfgCall
    \/ HfgPost
    \/ HfgRetry
    \/ HfgSave

SpecHfg == InitHfg /\ [][NextHfg]_vars

\* the same run for a product whose name holds the words of output_dir
RewriteProducts == {"Generated Images Studio"}

InitRewrite ==
    /\ product_name \in RewriteProducts
    /\ api_preference \in Preferences
    /\ openai_api_key \in BOOLEAN
    /\ stability_api_key \in BOOLEAN
    /\ huggingface_token \in BOOLEAN
    /\ pc = "start"
    /\ category = None
    /\ cfg = 1
    /\ i = 0
    /\ prompt = None
    /\ image_url = None
    /\ image_path = None
    /\ hf_status = 0
    /\ hf_log = << >>
    /\ now = 0
    /\ attempt = [a \in Steps |-> "none"]
    /\ generated_images = empty_images
    /\ web_result = NoResult
    /\ raised = FALSE
    /\ invoked = [a \in Adapters |-> 0]
    /\ requests = [a \in Adapters |-> 0]
    /\ faults = 0
    /\ request_raised = [a \in Steps |-> FALSE]
    /\ genuine_success = FALSE
    /\ ExtIdle /\ CatIdle /\ PromptIdle /\ FbIdle

SpecRewrite == InitRewrite /\ [][Next]_vars

(***************************************************************************)
(* Properties of the pure functions                                        *)
(***************************************************************************)

HasTechAndFood(f, name) ==
    IF f = "categorize_product"
    THEN AnyIn(tech_keywords, Lower(name)) /\ AnyIn(food_keywords, Lower(name))
    ELSE AnyIn(gpt_tech_words, Lower(name)) /\ AnyIn(gpt_food_words, Lower(name))

\* C7 as stated: every keyword categorizer returns technology for a name
\* holding a technology keyword and a food keyword.
C7_TechnologyFirstEverywhere ==
    \A f \in Categorizers :
        (cat_call[f] # NoCatCall /\ HasTechAndFood(f, cat_call[f].name))
            => cat_call[f].result = "technology"

\* C7 amended: each categorizer returns the category it checks first:
\* categorize_product checks technology before food_beverage,
\* _fallback_categorization checks food_beverage before technology.
C7_FirstMatchPerCategorizer ==
    \A f \in Categorizers :
        (cat_call[f] # NoCatCall /\ HasTechAndFood(f, cat_call[f].name))
            => cat_call[f].result =
                 (IF f = "categorize_product" THEN "technology"
                  ELSE "food_beverage")

C7_Witness ==
    /\ cat_call["categorize_product"] =
         [name |-> "smart coffee maker", result |-> "technology"]
    /\ cat_call["_fallback_categorization"] =
         [name |-> "smart coffee maker", result |-> "food_beverage"]

C9_Cycling ==
    LET N == Len(theme_data_of(p_theme).styles)
    IN  \A r1, r2 \in Runs :
            ( /\ last[r1] # NoCall
              /\ last[r1].variation < 2 * N
              /\ last[r2].variation = last[r1].variation + N )
                => last[r1].triple = last[r2].triple

\* index 7 (past the first cycle) and index 12 were both requested
C9_Witness ==
    /\ last[1].variation = 7
    /\ last[2].variation = 12
    /\ last[1].triple.style # ""

(***************************************************************************)
(* Properties of a generation run                                          *)
(***************************************************************************)
SeqToSet(q) == {q[n] : n \in 1..Len(q)}

\* every URL get_smart_fallback_image can return
FallbackURLs ==
    SeqToSet(tech_images) \cup SeqToSet(fashion_images)
        \cup SeqToSet(food_images) \cup SeqToSet(health_images)
        \cup {default_image}

\* the acquisition of the current image is over
AcquisitionOver == pc \in {"store", "returned", "done"}

AllAdaptersFailed ==
    \A a \in Adapters : attempt[a] \in {"failure", "no_credential"}

AllUncredentialed ==
    ~openai_api_key /\ ~stability_api_key /\ ~huggingface_token

\* C1: when all three adapters have failed for an image, the acquisition
\* ends without raising with a non-empty locator that is one of the curated
\* fallback URLs.
C1_ExhaustionGuarantee ==
    (pc = "store" /\ AllAdaptersFailed)
        => /\ ~raised
           /\ image_path # None
           /\ image_path \in FallbackURLs

\* C2: when generate_product_images has returned, every slot holds as many
\* locators as its requested count.
C2_FullAssetSet ==
    (pc \in {"returned", "done"} /\ ~raised)
        => \A n \in 1..Len(image_configs) :
             Len(generated_images[result_key(image_configs[n].image_type)])
                = image_configs[n].count

\* C3 as stated: in auto mode, once DALL-E has returned a URL for an image,
\* Stability and Hugging Face are not invoked for that image.
C3_ShortCircuitAlways ==
    (api_preference = "auto" /\ attempt["dalle"] = "success")
        => invoked["stability"] = 0 /\ invoked["huggingface"] = 0

\* C3 amended: in auto mode, once DALL-E has returned a URL for an image
\* and download_image has stored it, Stability and Hugging Face are not
\* invoked for that image.
C3_ShortCircuitAfterDownload ==
    ( /\ api_preference = "auto"
      /\ attempt["dalle"] = "success"
      /\ attempt["download"] = "success" )
        => invoked["stability"] = 0 /\ invoked["huggingface"] = 0

\* the image was acquired through DALL-E while both other adapters had
\* credentials
C3_Witness ==
    /\ api_preference = "auto"
    /\ stability_api_key /\ huggingface_token
    /\ attempt["dalle"] = "success"
    /\ attempt["download"] = "success"
    /\ pc = "store"
    /\ image_path # None

BusyTwice ==
    /\ Len(hf_log) >= 2
    /\ hf_log[1].resp = "503"
    /\ hf_log[2].resp = "503"

RequestsTo(model) ==
    Cardinality({n \in 1..Len(hf_log) : hf_log[n].model = model})

C5_NeverRaises ==
    /\ ~raised
    /\ pc = "done" => web_result.success

\* a run in which Hugging Face raised and the environment used up its
\* faults has returned
C5_Witness ==
    /\ pc = "done"
    /\ web_result.success
    /\ faults = MaxFaults
    /\ attempt["huggingface"] \in {"failure", "no_credential"}
    /\ web_result.total_images < 10

\* C10: "Artisan Coffee Roaster", preference auto, no credentials: the run
\* ends without error and the gallery holds exactly 2 locators, both from
\* the food and beverage fallback list.
C10_EndToEnd ==
    ( /\ pc = "done"
      /\ product_name = "Artisan Coffee Roaster"
      /\ api_preference = "auto"
      /\ AllUncredentialed )
        => /\ ~raised
           /\ Len(generated_images.gallery_items) = 2
           /\ \A n \in 1..Len(generated_images.gallery_items) :
                generated_images.gallery_items[n] \in SeqToSet(food_images)

\* the attempt of an adapter for the current image is over and left the
\* orchestrator without a stored image (for DALL-E: no URL, or a URL that
\* download_image could not store)
EndedWithoutResult(a) ==
    IF a = "dalle"
    THEN \/ attempt["dalle"] \in {"failure", "no_credential"}
         \/ attempt["dalle"] = "success" /\ attempt["download"] = "failure"
    ELSE attempt[a] \in {"failure", "no_credential"}

\* C11: in auto mode, for each image, Stability is invoked only after the
\* DALL-E attempt ended without a usable result, Hugging Face only after
\* both the DALL-E and the Stability attempts ended without one; no
\* adapter is invoked before a higher-priority one, nor twice.
C11_PriorityOrder ==
    /\ \A a \in Adapters : invoked[a] <= 1
    /\ api_preference = "auto" =>
          /\ invoked["stability"] > 0 =>
                invoked["dalle"] = 1 /\ EndedWithoutResult("dalle")
          /\ invoked["huggingface"] > 0 =>
                /\ invoked["dalle"] = 1 /\ EndedWithoutResult("dalle")
                /\ invoked["stability"] = 1
                /\ EndedWithoutResult("stability")

\* all three adapters were tried in turn for one image and the last one
\* delivered it
C11_Witness ==
    /\ api_preference = "auto"
    /\ openai_api_key /\ stability_api_key /\ huggingface_token
    /\ pc = "store"
    /\ invoked = [a \in Adapters |-> 1]
    /\ attempt["dalle"] = "failure"
    /\ attempt["stability"] = "failure"
    /\ attempt["huggingface"] = "success"
    /\ image_path # None

\* C12: when the preference names one provider, the two other adapters are
\* never invoked and never send a request, for any image of the run.
C12_PinnedOnly ==
    api_preference \in Adapters =>
        \A a \in Adapters \ {api_preference} :
            invoked[a] = 0 /\ requests[a] = 0 /\ attempt[a] = "none"

\* a run pinned to a provider without credential has ended with no image,
\* the two other providers holding credentials
C12_Witness ==
    /\ api_preference = "stability"
    /\ ~stability_api_key /\ openai_api_key /\ huggingface_token
    /\ pc = "done"
    /\ web_result.total_images = 0
    /\ invoked["stability"] = 1

credential(a) ==
    IF a = "dalle" THEN openai_api_key
    ELSE IF a = "stability" THEN stability_api_key
    ELSE huggingface_token

\* C13: an adapter without credential sends no request: its attempt ends
\* as a failure at once and the orchestrator goes on; with no credential at
\* all, a run sends no request (and so downloads nothing).
C13_NoCredentialNoRequest ==
    /\ \A a \in Adapters :
          ~credential(a) =>
             /\ requests[a] = 0
             /\ invoked[a] > 0 => attempt[a] = "no_credential"
    /\ (~openai_api_key /\ invoked["dalle"] > 0) =>
          pc \notin {"dalle", "download"}
    /\ (~stability_api_key /\ invoked["stability"] > 0) =>
          pc # "stability"
    /\ (~huggingface_token /\ invoked["huggingface"] > 0) =>
          pc \notin {"huggingface", "hf_retry", "hf_second", "hf_save"}
    /\ AllUncredentialed =>
          /\ \A a \in Adapters : requests[a] = 0
          /\ attempt["download"] = "none"
          /\ faults = 0
          /\ ~raised

\* a run in auto mode without any credential has ended, every adapter
\* having been invoked for the last image
C13_Witness ==
    /\ AllUncredentialed
    /\ api_preference = "auto"
    /\ pc = "done"
    /\ \A a \in Adapters :
          invoked[a] = 1 /\ attempt[a] = "no_credential"

\* the four domains in the order claimed: technology, fashion,
\* food/beverage, wellness
DomainWords ==
    << fb_tech_words, fb_fashion_words, fb_food_words, fb_health_words >>

DomainImages ==
    << tech_images, fashion_images, food_images, health_images >>

\* the domains having a keyword that is a substring of the lower-cased q
DomainHits(q) ==
    {d \in 1..Len(DomainWords) : AnyIn(DomainWords[d], Lower(q))}

\* C14: every URL get_smart_fallback_image returned for a prompt is in the
\* list of the first domain (in the order technology, fashion,
\* food/beverage, wellness) with a keyword in the lower-cased prompt, and in
\* no other domain's list; without any matching keyword it is the default.
C14_DomainSelection ==
    \A q \in DOMAIN fb_seen : \A n \in 1..Len(fb_seen[q]) :
        LET url  == fb_seen[q][n]
            hits == DomainHits(q)
        IN  IF hits = {}
            THEN url = default_image
            ELSE LET first == CHOOSE d \in hits : \A e \in hits : d <= e
                 IN  /\ url \in SeqToSet(DomainImages[first])
                     /\ \A e \in 1..Len(DomainImages) \ {first} :
                           url \notin SeqToSet(DomainImages[e])
                     /\ url # default_image

\* a prompt with a fashion and a food keyword was resolved, under a negative
\* hash, to a URL of the fashion list
C14_Witness ==
    /\ DOMAIN fb_seen = {"Watch for Coffee"}
    /\ DomainHits("Watch for Coffee") = {2, 3}
    /\ hashOf["Watch for Coffee"] < 0
    /\ Len(fb_seen["Watch for Coffee"]) = MaxRepeat
    /\ fb_seen["Watch for Coffee"][1] \in SeqToSet(fashion_images)

\* every keyword a categorizer looks for
KeywordsOf(f) ==
    IF f = "categorize_product"
    THEN tech_keywords \o food_keywords \o fashion_keywords
            \o health_keywords \o business_keywords
    ELSE IF f = "_fallback_categorization"
    THEN gpt_food_words \o gpt_tech_words \o gpt_fashion_words
            \o gpt_health_words \o gpt_automotive_words
            \o gpt_sports_words \o gpt_home_words \o gpt_business_words
    ELSE categories.technology \o categories.food_beverage
            \o categories.fashion \o categories.health_wellness
            \o categories.business

\* the category set of the specification
CategoryTags ==
    {"technology", "fashion", "food_beverage", "health_wellness",
     "business", "general"}

\* the tags each categorizer can return
TagsOf(f) ==
    IF f = "categorize_product" THEN CategoryTags \ {"general"}
    ELSE IF f = "_fallback_categorization"
    THEN {"food_beverage", "technology", "fashion", "health_wellness",
          "automotive", "sports_recreation", "home_lifestyle",
          "business_professional"}
    ELSE CategoryTags

\* what each categorizer returns for a name without any of its keywords
DefaultOf(f) ==
    IF f = "categorize_product" THEN "technology"
    ELSE IF f = "_fallback_categorization" THEN "food_beverage"
    ELSE "general"

Called(f) == cat_call[f] # NoCatCall

NoKeyword(f) == ~AnyIn(KeywordsOf(f), Lower(cat_call[f].name))

\* C15 as stated: every categorizer returns general for a name without any
\* keyword, and a tag of the closed category set for any name.
C15_DefaultGeneral ==
    \A f \in KeywordCategorizers :
        Called(f) =>
            /\ NoKeyword(f) => cat_call[f].result = "general"
            /\ cat_call[f].result \in CategoryTags

\* C15 amended: for a name without any keyword,
\* AIEnhancedSiteGenerator.categorize_product returns general,
\* AIImageGenerator.categorize_product returns technology and
\* _fallback_categorization returns food_beverage; for any name the tag is
\* in the categorizer's own closed set.
C15_DefaultPerCategorizer ==
    \A f \in KeywordCategorizers :
        Called(f) =>
            /\ NoKeyword(f) => cat_call[f].result = DefaultOf(f)
            /\ cat_call[f].result \in TagsOf(f)

\* the three categorizers were given the same name without any keyword
C15_Witness ==
    /\ \A f \in KeywordCategorizers :
          /\ cat_call[f].name = "Wooden Widget"
          /\ NoKeyword(f)
    /\ cat_call["AIEnhancedSiteGenerator.categorize_product"].result
          = "general"
    /\ cat_call["categorize_product"].result = "technology"
    /\ cat_call["_fallback_categorization"].result = "food_beverage"

\* C16: whatever the product name, slot type, category and variation
\* index, the text generate_prompt returned is at most 800 characters long.
C16_LengthCeiling ==
    \A r \in Runs : last[r] # NoCall => Len(last[r].text) <= 800

\* the first answer of Hugging Face for the current prompt was a
\* non-success status other than 503
FirstAnswerHardFailure ==
    /\ Len(hf_log) >= 1
    /\ hf_log[1].resp = "500"

C18_ExceptionPermanent ==
    /\ \A a \in {"dalle", "stability"} :
          request_raised[a] => requests[a] = 1 /\ attempt[a] = "failure"
    /\ request_raised["dalle"] =>
          /\ image_url = None
          /\ attempt["download"] = "none"
          /\ pc \notin {"dalle", "download"}
          /\ (api_preference = "auto" /\ pc # "stability") =>
                invoked["stability"] = 1
          /\ api_preference = "dalle" =>
                invoked["stability"] = 0 /\ invoked["huggingface"] = 0
    /\ request_raised["stability"] =>
          /\ pc # "stability"
          /\ (api_preference = "auto" /\ pc # "huggingface") =>
                invoked["huggingface"] = 1
    /\ \A n \in 1..Len(hf_log) :
          hf_log[n].resp = "exception" =>
             /\ n = Len(hf_log)
             /\ request_raised["huggingface"]
    /\ request_raised["huggingface"] =>
          /\ hf_log[Len(hf_log)].resp = "exception"
          /\ requests["huggingface"] = Len(hf_log)
          /\ attempt["huggingface"] = "failure"
          /\ image_path = None
          /\ pc \notin {"huggingface", "hf_retry", "hf_second", "hf_save"}

\* in auto mode the requests to DALL-E and to Stability both raised and
\* Hugging Face, tried next, delivered the image
C18_Witness ==
    /\ api_preference = "auto"
    /\ request_raised["dalle"]
    /\ request_raised["stability"]
    /\ requests = [a \in Adapters |-> 1]
    /\ attempt["huggingface"] = "success"
    /\ pc = "store"
    /\ image_path # None

\* C19: when the run has returned, the success flag of generate_for_website
\* and ai_images_generated of the site metadata are true if and only if a
\* provider call of the run has succeeded.
C19_ProvenanceFlag ==
    pc = "done" =>
        /\ web_result.success <=> genuine_success
        /\ site_metadata(web_result).ai_images_generated <=> genuine_success

\* a locator with only its leading storage root replaced by the public
\* mount prefix; a locator that does not start with the storage root (a
\* hosted URL) as it is
PrefixRewritten(locator) ==
    IF /\ Len(locator) >= Len(output_dir)
       /\ SubSeq(locator, 1, Len(output_dir)) = output_dir
    THEN "/generated_images"
            \o SubSeq(locator, Len(output_dir) + 1, Len(locator))
    ELSE locator

\* C20: every locator generate_for_website returns is the stored locator
\* with only its leading generated_images replaced by /generated_images,
\* the rest of the path untouched.
C20_PrefixOnlyRewrite ==
    pc = "done" =>
        \A k \in DOMAIN generated_images :
            /\ Len(web_result.images[k]) = Len(generated_images[k])
            /\ \A n \in 1..Len(generated_images[k]) :
                  web_result.images[k][n]
                     = PrefixRewritten(generated_images[k][n])

\* the slots of the page and the number of images each one asks for
SiteSlots ==
    [ hero_background |-> 1, product_showcase |-> 2,
      feature_icons |-> 3, gallery_items |-> 4 ]

\* C21: when use_ai_images is false, the site is produced without any
\* adapter invocation or network request, and every slot of the asset set
\* holds its locators, all of them from the fallback resolver.
C21_DisabledUsesFallback ==
    (pc = "site_done" /\ ~use_ai_images) =>
        /\ \A a \in Adapters : invoked[a] = 0 /\ requests[a] = 0
        /\ acquired = << >>
        /\ \A k \in DOMAIN SiteSlots :
              /\ k \in DOMAIN site.ai_images
              /\ Len(site.ai_images[k]) = SiteSlots[k]
              /\ \A n \in 1..Len(site.ai_images[k]) :
                    site.ai_images[k][n] \in FallbackURLs

\* the completed acquisitions of one list of the result that stored a locator
StoredOf(key) ==
    SelectSeq(acquired,
              LAMBDA r : r.stored /\ result_key(r.image_type) = key)

\* C22: the acquisitions happen one after the other in the order
\* hero_background, product_showcase, feature_icon, gallery_item and in
\* increasing variation index, and in every list of the result the entry at
\* position k (counted from 0) is the locator of variation index k.
C22_StableOrdering ==
    /\ \A n \in 1..Len(acquired) :
          /\ acquired[n].image_type = ConfigOrder(1)[n].image_type
          /\ acquired[n].variation = ConfigOrder(1)[n].variation
    /\ \A key \in DOMAIN generated_images :
          /\ Len(StoredOf(key)) = Len(generated_images[key])
          /\ \A n \in 1..Len(generated_images[key]) :
                /\ StoredOf(key)[n].path = generated_images[key][n]
                /\ StoredOf(key)[n].variation = n - 1

\* the part of C22 the code keeps: the order of the acquisitions, and every
\* list holding the stored locators of its slot in acquisition order
C22_OrderOnly ==
    /\ \A n \in 1..Len(acquired) :
          /\ acquired[n].image_type = ConfigOrder(1)[n].image_type
          /\ acquired[n].variation = ConfigOrder(1)[n].variation
    /\ \A key \in DOMAIN generated_images :
          /\ Len(StoredOf(key)) = Len(generated_images[key])
          /\ \A n \in 1..Len(generated_images[key]) :
                StoredOf(key)[n].path = generated_images[key][n]

\* C23: the credential a step of a generation run works with is the one read
\* at construction: every call of generate_product_image made for a
\* constructed generator decides on the key the constructor read, whatever
\* the environment has become since.
C23_CredentialsReadOnce ==
    \A n \in 1..Len(gpt_calls) :
        gpt_calls[n].api_key # None =>
            usable_key(gpt_calls[n].call.key)
                = usable_key(gpt_calls[n].api_key)

\* the DALL-E path of a call succeeded: the request was made and answered
\* with image data
DalleSucceeded(c) == c.sent # << >> /\ c.response = "url"

\* C26: no call of generate_product_image raises; a call made at most one
\* DALL-E request; it returned the provider's URL when the DALL-E path
\* succeeded and get_smart_fallback_image(prompt) for every failure,
\* the failing import of the openai library included.
C26_NeverRaises ==
    \A n \in 1..Len(gpt_calls) :
        LET c == gpt_calls[n].call
        IN  /\ c.raised = None
            /\ Len(c.sent) <= 1
            /\ c.result = IF DalleSucceeded(c) THEN dalle_image_url
                          ELSE get_smart_fallback_image(c.prompt)

\* C30: the string clean_dalle_prompt returns is at most 800 characters long,
\* whatever the length of the input, and it is never empty.
C30_CleanPromptBounded ==
    clean_call.clean_prompt # None =>
        /\ Len(clean_call.clean_prompt) <= 800
        /\ Len(clean_call.clean_prompt) > 0

\* C24: two runs that execute at the same time, for the same or for different
\* products, never write a generated asset to the same path of the output
\* directory.
C24_NoCollision == written[1] \cap written[2] = {}

\* the completed acquisitions of one image type
AcquisitionsOf(image_type) ==
    Len(SelectSeq(acquired, LAMBDA r : r.image_type = image_type))

\* C25: every generation run terminates, and it does so without an exception
\* after exactly 10 acquisitions (1 hero_background, 2 product_showcase,
\* 3 feature_icon, 4 gallery_item); an acquisition makes at most one DALL-E
\* request, one Stability request and three Hugging Face requests.
C25_Termination ==
    /\ <>(pc = "done")
    /\ [](pc = "done" =>
            /\ ~raised
            /\ Len(acquired) = 10
            /\ AcquisitionsOf("hero_background") = 1
            /\ AcquisitionsOf("product_showcase") = 2
            /\ AcquisitionsOf("feature_icon") = 3
            /\ AcquisitionsOf("gallery_item") = 4)
    /\ [](/\ requests["dalle"] <= 1
          /\ requests["stability"] <= 1
          /\ requests["huggingface"] <= 3)

C25_Witness ==
    /\ pc = "done"
    /\ Len(acquired) = 10
    /\ faults = MaxFaults
    /\ \E n \in 1..10 : ~acquired[n].stored
    /\ \E n \in 1..10 : acquired[n].stored

\* some request of the current call was answered with status 200
Status200 ==
    \E n \in 1..Len(hf_log) :
        hf_log[n].resp # "exception" /\ status_code(hf_log[n].resp) = 200

\* at most three requests: the first model, the first model once more only
\* after a 503, then at most one request to the second model
HFRequestOrder ==
    /\ requests["huggingface"] = Len(hf_log)
    /\ Len(hf_log) <= 3
    /\ RequestsTo(first_model) <= 2
    /\ RequestsTo(second_model) <= 1
    /\ Len(hf_log) >= 1 => hf_log[1].model = first_model
    /\ RequestsTo(first_model) = 2 =>
          hf_log[1].resp = "503" /\ hf_log[2].model = first_model
    /\ \A n \in 1..Len(hf_log) :
          hf_log[n].model = second_model => n = Len(hf_log)

\* C27 as stated: generate_with_huggingface makes at most 3 requests in the
\* order above, returns content if and only if a response had status 200 and
\* raises otherwise, and what it returns is never empty.
C27_BytesIffStatus200 ==
    /\ HFRequestOrder
    /\ hf_result # "none" =>
          /\ hf_result \in {"bytes", "empty"} <=> Status200
          /\ hf_result = "raised" <=> ~Status200
    /\ hf_result # "empty"

\* C27 amended: at most 3 requests in the order above; the call returns
\* response.content of the first response with status 200, whatever that
\* body holds (an empty body is returned as it is), and raises when no
\* response had status 200; it never returns None.
C27_ContentIffStatus200 ==
    /\ HFRequestOrder
    /\ hf_result # "none" =>
          /\ hf_result \in {"bytes", "empty"} <=> Status200
          /\ hf_result = "raised" <=> ~Status200
    /\ hf_result = "bytes" => hf_log[Len(hf_log)].resp = "200"
    /\ hf_result = "empty" => hf_log[Len(hf_log)].resp = "200_empty"

\* after a 503 the retry was answered 200 with an empty body, which the
\* call returned
C27_Witness ==
    /\ hf_result = "empty"
    /\ Len(hf_log) = 2
    /\ hf_log[1].resp = "503"
    /\ hf_log[2].model = first_model

\* C28: throughout a run the image mapping has exactly the four keys, its
\* lists hold at most 1, 2, 3 and 4 locators, every locator belongs to an
\* acquisition in which some provider succeeded, and in the returned result
\* the mapping has the same shape and total_images is the sum of the four
\* list lengths, hence at most 10.
C28_AssetSetShape ==
    /\ DOMAIN generated_images = DOMAIN SiteSlots
    /\ \A k \in DOMAIN SiteSlots :
          /\ Len(generated_images[k]) <= SiteSlots[k]
          /\ Len(generated_images[k]) = Len(StoredOf(k))
    /\ \A n \in 1..Len(acquired) :
          acquired[n].stored => acquired[n].provider_success
    /\ pc = "done" =>
          /\ DOMAIN web_result.images = DOMAIN SiteSlots
          /\ \A k \in DOMAIN SiteSlots :
                Len(web_result.images[k]) = Len(generated_images[k])
          /\ web_result.total_images =
                Len(web_result.images["hero_background"])
                  + Len(web_result.images["product_showcase"])
                  + Len(web_result.images["feature_icons"])
                  + Len(web_result.images["gallery_items"])
          /\ web_result.total_images <= 10

\* a run has returned nine locators and skipped one image
C28_Witness ==
    /\ pc = "done"
    /\ web_result.total_images = 9
    /\ \E n \in 1..Len(acquired) : ~acquired[n].stored
    /\ Len(web_result.images["gallery_items"]) = 4

\* the generation requests of the current call of generate_image
HfgPosts == SelectSeq(hfg_log, LAMBDA e : e.kind = "post")

\* at most two requests, the second only after a 503 and the wait of 20 s
HfgRequestOrder ==
    /\ Len(HfgPosts) <= 2
    /\ Len(HfgPosts) = 2 =>
          /\ HfgPosts[1].resp = "503"
          /\ HfgPosts[2].at >= HfgPosts[1].at + 20

\* C29 as stated: at most two requests, the second only after a 503 and the
\* wait; the call returns True if and only if a request was answered 200,
\* it has written an image file exactly when it returns True, and it
\* returns False without raising in every other case.
C29_TrueIffStatus200 ==
    /\ HfgRequestOrder
    /\ ~hfg_raised
    /\ hfg_pc = "returned" =>
          /\ hfg_ret \in {"True", "False"}
          /\ hfg_ret = "True" <=>
                \E n \in 1..Len(HfgPosts) : HfgPosts[n].resp = "200"
          /\ hfg_ret = "True" <=> hfg_files # {}

\* C29 amended: at most two requests, the second only after a 503 and the
\* wait; the call returns True if and only if a request was answered 200
\* and the image file was then written; it has written an image file
\* exactly when it returns True; for every other status or exception, a
\* failure to write the file included, it returns False without raising.
C29_TrueIffWritten ==
    /\ HfgRequestOrder
    /\ ~hfg_raised
    /\ hfg_pc = "returned" =>
          /\ hfg_ret \in {"True", "False"}
          /\ hfg_ret = "True" <=>
                /\ HfgPosts # << >>
                /\ HfgPosts[Len(HfgPosts)].resp = "200"
                /\ hfg_log[Len(hfg_log)] =
                      [kind |-> "save", resp |-> "ok", at |-> hfg_now]
          /\ hfg_ret = "True" <=> hfg_files = {hf_image_path(hfg_now)}
          /\ hfg_ret = "False" <=> hfg_files = {}

\* the retry after a 503 was answered 200, but the file could not be
\* written: the call returned False
C29_Witness ==
    /\ hfg_pc = "returned"
    /\ hfg_ret = "False"
    /\ Len(HfgPosts) = 2
    /\ HfgPosts[2].resp = "200"
    /\ hfg_files = {}

====
